---- MODULE Spec2Model ----
(***************************************************************************)
(* bevy_replicon_matchbox: the matchbox messaging backend of bevy_replicon. *)
(* One host (src/src/server.rs) and one client (src/src/client.rs) over a  *)
(* multi-channel peer-to-peer socket.  Every system of the two plugins is   *)
(* one action; a program counter per role runs the systems of a tick in    *)
(* the order the plugins schedule them (PreUpdate chain, then the           *)
(* application's Update, then PostUpdate).  Deferred commands of a system   *)
(* are applied when the system ends (the chain's sync points).              *)
(***************************************************************************)
EXTENDS Integers, Sequences, FiniteSets, TLC

\* ---------------------------------------------------------------- bounds
MaxHostEvents == 3      \* socket and application events at the host
MaxClientEvents == 3    \* socket and application events at the client
MaxNetEvents == 2       \* application events when the two are networked
MaxChannels == 3        \* most logical channels of one direction

\* ------------------------------------------------------------ vocabulary
HostPeer == "h"                     \* the host's peer id, as clients see it
ClientPeer == "p1"                  \* the modelled client's peer id
Peers == {"p1", "p2"}               \* peer ids the host socket can report
OtherPeer == "x"                    \* a peer of the client that is not the host
NoPeer == "none"                    \* Option<PeerId>::None
PeerStates == {"Connected", "Disconnected"}
Payloads == {<<>>, <<65, 66>>}      \* opaque framework payloads
ChannelCounts == {<<2, 1>>}         \* the RepliconChannels of the session
Entities == 1..MaxHostEvents        \* entity ids the world can have allocated

Messages == {"ConnectedToHost", "HostRequestsDisconnect", "ClientDisconnects"}

\* ------------------------------------------------- shared.rs: the codec
SYSTEM_CHANNEL_ID == 0
Marker == 1

add_marker(b) == <<Marker>> \o b

\* The marker left on the payload.
strip_marker_keeps_marker(p) == p

strip_marker(p) == SubSeq(p, 2, Len(p))

Discriminant(m) ==
    CASE m = "ConnectedToHost" -> 0
      [] m = "HostRequestsDisconnect" -> 1
      [] m = "ClientDisconnects" -> 2

to_packet(m) == <<Discriminant(m)>>

\* Ok(message), or "Err" for a buffer that is no known message.
from_packet(p) ==
    IF Len(p) = 1 /\ \E m \in Messages : Discriminant(m) = p[1]
    THEN CHOOSE m \in Messages : Discriminant(m) = p[1]
    ELSE "Err"

\* Datagrams a remote peer can put on the control channel / a data channel.
SystemPackets == {to_packet(m) : m \in Messages} \cup {<<>>, <<9>>}
DataPackets == {add_marker(b) : b \in Payloads}

\* ------------------------------------------------ channel index mapping
\* server.rs send_packets: socket channel of host->client channel i.
ServerSendChannel(i) == 1 + i

\* The host reading its own outbound channels: the offset left out.
ServerReceiveChannelNoOffset(S, j) == 1 + j

\* server.rs receive_packets: socket channel of client->host channel j.
ServerReceiveChannel(S, j) == 1 + S + j

\* client.rs receive_packets: socket channel of host->client channel i.
ClientReceiveChannel(i) == 1 + i

\* The offset of the host->client channels left out.
ClientSendChannelNoOffset(S, j) == 1 + j

\* client.rs send_packets: socket channel of client->host channel j.
ClientSendChannel(S, j) == 1 + S + j

\* ----------------------------------------------------------------- state
VARIABLES
    server_channels,        \* RepliconChannels::server_channels().len()
    client_channels,        \* RepliconChannels::client_channels().len()
    \* host
    h_pc,                   \* next system of the host tick
    host_exists,            \* the MatchboxHost resource is in the world
    host_added,             \* resource_added::<MatchboxHost> not yet seen
    host_removed,           \* resource_removed::<MatchboxHost> not yet seen
    host_socket,            \* "open" | "closed"
    client_entities,        \* MatchboxHost::client_entities: peer -> entity
    clients_to_disconnect,  \* MatchboxHost::clients_to_disconnect
    connections,            \* live client entities: entity -> peer_id
    next_entity,            \* next entity id the world allocates
    disconnect_events,      \* unread DisconnectRequest messages
    server_state,           \* NextState<ServerState> as last set
    server_sent,            \* ServerMessages outbound queue
    server_received,        \* ServerMessages inbound queue
    host_peer_updates,      \* what try_update_peers will return
    updated_peers,          \* what the last try_update_peers returned
    host_in,                \* host socket: channel index -> received datagrams
    host_out,               \* host socket: datagrams sent <<index, packet, peer>>
    \* client
    c_pc,                   \* next system of the client tick
    client_exists,          \* the MatchboxClient resource is in the world
    client_removed,         \* resource_removed::<MatchboxClient> not yet seen
    client_socket,          \* "open" | "partial" (a channel closed) | "closed"
    host_peer_id,           \* MatchboxClient::host_peer_id
    should_disconnect,      \* MatchboxClient::should_disconnect
    client_state,           \* NextState<ClientState> as last set
    client_sent,            \* ClientMessages outbound queue
    client_received,        \* ClientMessages inbound queue
    client_peer_updates,    \* what try_update_peers will return
    client_in,              \* client socket: channel index -> received datagrams
    client_out,             \* client socket: datagrams sent <<index, packet, peer>>
    \* environment
    link,                   \* the peer connection: "none" | "up" | "down"
    budget                  \* environment events used so far

hostVars == <<h_pc, host_exists, host_added, host_removed, host_socket,
              client_entities, clients_to_disconnect, connections, next_entity,
              disconnect_events, server_state, server_sent, server_received,
              host_peer_updates, updated_peers, host_in, host_out>>

clientVars == <<c_pc, client_exists, client_removed, client_socket, host_peer_id,
                should_disconnect, client_state, client_sent, client_received,
                client_peer_updates, client_in, client_out>>

vars == <<server_channels, client_channels, hostVars, clientVars, link, budget>>

\* ------------------------------------------------------------- utilities
Empty == [x \in {} |-> 0]

Remove(f, k) == [x \in DOMAIN f \ {k} |-> f[x]]

Put(f, k, v) == [x \in DOMAIN f \cup {k} |-> IF x = k THEN v ELSE f[x]]

Without(f, ks) == [x \in DOMAIN f \ ks |-> f[x]]

Spend(what) == [budget EXCEPT ![what] = @ + 1]

\* ============================================================ the host
\* server.rs:13-43.  PreUpdate chain, Update, then PostUpdate: set_stopped is
\* in ServerSystems::Send, which precedes ServerSystems::SendPackets.
HostTickStart == "set_running"

\* A host that reads the data channels before it drains the control channel.
HostNextPcDataFirst(pc) ==
    CASE pc = "set_running" -> "receive_packets"
      [] pc = "receive_packets" -> "receive_system"
      [] pc = "receive_system" -> "received_disconnect"
      [] pc = "received_disconnect" -> "update"
      [] pc = "update" -> "set_stopped"
      [] pc = "set_stopped" -> "update_client_presence"
      [] pc = "update_client_presence" -> "send_packets"
      [] pc = "send_packets" -> "set_running"

HostNextPc(pc) ==
    CASE pc = "set_running" -> "receive_system"
      [] pc = "receive_system" -> "receive_packets"
      [] pc = "receive_packets" -> "received_disconnect"
      [] pc = "received_disconnect" -> "update"
      [] pc = "update" -> "set_stopped"
      [] pc = "set_stopped" -> "update_client_presence"
      [] pc = "update_client_presence" -> "send_packets"
      [] pc = "send_packets" -> "set_running"

\* server.rs:50-52, run_if(resource_added::<MatchboxHost>)
set_running ==
    /\ h_pc = "set_running"
    /\ h_pc' = HostNextPc(h_pc)
    /\ host_added' = FALSE
    /\ server_state' = IF host_added /\ host_exists THEN "Running" ELSE server_state
    /\ UNCHANGED <<server_channels, client_channels, host_exists, host_removed,
                   host_socket, client_entities, clients_to_disconnect, connections,
                   next_entity, disconnect_events, server_sent, server_received,
                   host_peer_updates, updated_peers, host_in, host_out, budget, clientVars, link>>

\* server.rs:45-48, run_if(resource_removed::<MatchboxHost>)
set_stopped ==
    /\ h_pc = "set_stopped"
    /\ h_pc' = HostNextPc(h_pc)
    /\ host_removed' = FALSE
    /\ server_state' = IF host_removed THEN "Stopped" ELSE server_state
    /\ UNCHANGED <<server_channels, client_channels, host_exists, host_added,
                   host_socket, client_entities, clients_to_disconnect, connections,
                   next_entity, disconnect_events, server_sent, server_received,
                   host_peer_updates, updated_peers, host_in, host_out, budget, clientVars, link>>

\* A host that registers a peer without greeting it.
PresenceOneNoGreeting(acc, upd) ==
    LET peer == upd[1]
        state == upd[2]
    IN  IF state = "Connected"
        THEN IF peer \in DOMAIN acc.ce
             THEN acc
             ELSE [acc EXCEPT
                     !.ce = Put(acc.ce, peer, acc.next),
                     !.spawn = Put(acc.spawn, acc.next, peer),
                     !.next = acc.next + 1]
        ELSE IF peer \notin DOMAIN acc.ce
             THEN acc
             ELSE [acc EXCEPT
                     !.ce = Remove(acc.ce, peer),
                     !.despawn = acc.despawn \cup {acc.ce[peer]}]

\* The contains_key test of server.rs:67 left out.
PresenceOneNoCheck(acc, upd) ==
    LET peer == upd[1]
        state == upd[2]
    IN  IF state = "Connected"
        THEN [acc EXCEPT
                !.ce = Put(acc.ce, peer, acc.next),
                !.spawn = Put(acc.spawn, acc.next, peer),
                !.next = acc.next + 1,
                !.out = Append(acc.out,
                          <<SYSTEM_CHANNEL_ID, to_packet("ConnectedToHost"), peer>>)]
        ELSE IF peer \notin DOMAIN acc.ce
             THEN acc
             ELSE [acc EXCEPT
                     !.ce = Remove(acc.ce, peer),
                     !.despawn = acc.despawn \cup {acc.ce[peer]}]

\* server.rs:64-99: one (peer, state) of the loop.  acc carries the registry,
\* the entity allocator, the queued spawn/despawn commands and the sends.
PresenceOne(acc, upd) ==
    LET peer == upd[1]
        state == upd[2]
    IN  IF state = "Connected"
        THEN IF peer \in DOMAIN acc.ce
             THEN acc
             ELSE [acc EXCEPT
                     !.ce = Put(acc.ce, peer, acc.next),
                     !.spawn = Put(acc.spawn, acc.next, peer),
                     !.next = acc.next + 1,
                     !.out = Append(acc.out,
                               <<SYSTEM_CHANNEL_ID, to_packet("ConnectedToHost"), peer>>)]
        ELSE IF peer \notin DOMAIN acc.ce
             THEN acc
             ELSE [acc EXCEPT
                     !.ce = Remove(acc.ce, peer),
                     !.despawn = acc.despawn \cup {acc.ce[peer]}]

RECURSIVE PresenceLoop(_, _)
PresenceLoop(acc, updates) ==
    IF updates = <<>> THEN acc
    ELSE PresenceLoop(PresenceOne(acc, Head(updates)), Tail(updates))

\* Applying a system's queued commands: spawns, then despawns.
ApplyCommands(conns, spawn, despawn) ==
    Without([e \in DOMAIN conns \cup DOMAIN spawn |->
                IF e \in DOMAIN spawn THEN spawn[e] ELSE conns[e]], despawn)

\* A host that leaves the connection handles alone when its socket fails.
FatalDespawnNone(ce) == {}

\* server.rs:56-61: the entities despawned when try_update_peers fails.
FatalDespawn(ce) == {ce[p] : p \in DOMAIN ce}

\* server.rs:54-100, run_if(resource_exists::<MatchboxHost>)
update_client_presence ==
    /\ h_pc = "update_client_presence"
    /\ h_pc' = HostNextPc(h_pc)
    /\ IF ~host_exists
       THEN UNCHANGED <<host_exists, host_removed, client_entities,
                        clients_to_disconnect, connections, next_entity,
                        host_peer_updates, updated_peers, host_out>>
       ELSE IF host_socket = "closed"
       THEN /\ connections' = ApplyCommands(connections, Empty,
                                            FatalDespawn(client_entities))
            /\ host_exists' = FALSE
            /\ host_removed' = TRUE
            /\ client_entities' = Empty
            /\ clients_to_disconnect' = <<>>
            /\ updated_peers' = <<>>
            /\ UNCHANGED <<next_entity, host_peer_updates, host_out>>
       ELSE LET acc == PresenceLoop([ce |-> client_entities, spawn |-> Empty,
                                     despawn |-> {}, next |-> next_entity,
                                     out |-> host_out], host_peer_updates)
            IN  /\ client_entities' = acc.ce
                /\ connections' = ApplyCommands(connections, acc.spawn, acc.despawn)
                /\ next_entity' = acc.next
                /\ host_out' = acc.out
                /\ host_peer_updates' = <<>>
                /\ updated_peers' = host_peer_updates
                /\ UNCHANGED <<host_exists, host_removed, clients_to_disconnect>>
    /\ UNCHANGED <<server_channels, client_channels, host_added, host_socket,
                   disconnect_events, server_state, server_sent, server_received,
                   host_in, budget, clientVars, link>>

\* The registry entry removed, the connection handle left alone.
RECURSIVE ServerSystemLoopNoDespawn(_, _)
ServerSystemLoopNoDespawn(acc, packets) ==
    IF packets = <<>> THEN acc
    ELSE LET peer_id == Head(packets)[1]
             message == from_packet(Head(packets)[2])
             next == IF message = "ClientDisconnects" /\ peer_id \in DOMAIN acc.ce
                     THEN [ce |-> Remove(acc.ce, peer_id), despawn |-> acc.despawn]
                     ELSE acc
         IN  ServerSystemLoopNoDespawn(next, Tail(packets))

\* A host that takes any decodable control message for a ClientDisconnects.
RECURSIVE ServerSystemLoopAnyLeaves(_, _)
ServerSystemLoopAnyLeaves(acc, packets) ==
    IF packets = <<>> THEN acc
    ELSE LET peer_id == Head(packets)[1]
             message == from_packet(Head(packets)[2])
             next == IF message # "Err" /\ peer_id \in DOMAIN acc.ce
                     THEN [ce |-> Remove(acc.ce, peer_id),
                           despawn |-> acc.despawn \cup {acc.ce[peer_id]}]
                     ELSE acc
         IN  ServerSystemLoopAnyLeaves(next, Tail(packets))

\* A host whose drain of the control channel ends at the first datagram that
\* does not decode.
RECURSIVE ServerSystemLoopStopsAtError(_, _)
ServerSystemLoopStopsAtError(acc, packets) ==
    IF packets = <<>> THEN acc
    ELSE LET peer_id == Head(packets)[1]
             message == from_packet(Head(packets)[2])
             next == IF message = "ClientDisconnects" /\ peer_id \in DOMAIN acc.ce
                     THEN [ce |-> Remove(acc.ce, peer_id),
                           despawn |-> acc.despawn \cup {acc.ce[peer_id]}]
                     ELSE acc
         IN  IF message = "Err" THEN acc
             ELSE ServerSystemLoopStopsAtError(next, Tail(packets))

\* server.rs:111-133: the drain of the control channel.
RECURSIVE ServerSystemLoop(_, _)
ServerSystemLoop(acc, packets) ==
    IF packets = <<>> THEN acc
    ELSE LET peer_id == Head(packets)[1]
             message == from_packet(Head(packets)[2])
             next == IF message = "ClientDisconnects" /\ peer_id \in DOMAIN acc.ce
                     THEN [ce |-> Remove(acc.ce, peer_id),
                           despawn |-> acc.despawn \cup {acc.ce[peer_id]}]
                     ELSE acc
         IN  ServerSystemLoop(next, Tail(packets))

\* server.rs:102-134, run_if(resource_exists::<MatchboxHost>)
server_receive_system_channel_packets ==
    /\ h_pc = "receive_system"
    /\ h_pc' = HostNextPc(h_pc)
    /\ IF ~host_exists \/ host_socket = "closed"
       THEN UNCHANGED <<client_entities, connections, host_in>>
       ELSE LET acc == ServerSystemLoop([ce |-> client_entities, despawn |-> {}],
                                        host_in[SYSTEM_CHANNEL_ID])
            IN  /\ client_entities' = acc.ce
                /\ connections' = ApplyCommands(connections, Empty, acc.despawn)
                /\ host_in' = [host_in EXCEPT ![SYSTEM_CHANNEL_ID] = <<>>]
    /\ UNCHANGED <<server_channels, client_channels, host_exists, host_added,
                   host_removed, host_socket, clients_to_disconnect, next_entity,
                   disconnect_events, server_state, server_sent, server_received,
                   host_peer_updates, updated_peers, host_out, budget, clientVars, link>>

\* A host that delivers the datagrams of unregistered peers too, under no
\* handle.
RECURSIVE ServerReceiveChannelLoopAnySender(_, _, _, _)
ServerReceiveChannelLoopAnySender(received, ce, channel_id, packets) ==
    IF packets = <<>> THEN received
    ELSE LET id == Head(packets)[1]
             packet == Head(packets)[2]
             next == Append(received, <<IF id \in DOMAIN ce THEN ce[id] ELSE 0,
                                        channel_id, strip_marker(packet)>>)
         IN  ServerReceiveChannelLoopAnySender(next, ce, channel_id, Tail(packets))

\* server.rs:143-149: the datagrams of one client->host channel.
RECURSIVE ServerReceiveChannelLoop(_, _, _, _)
ServerReceiveChannelLoop(received, ce, channel_id, packets) ==
    IF packets = <<>> THEN received
    ELSE LET id == Head(packets)[1]
             packet == Head(packets)[2]
             next == IF id \in DOMAIN ce
                     THEN Append(received, <<ce[id], channel_id, strip_marker(packet)>>)
                     ELSE received
         IN  ServerReceiveChannelLoop(next, ce, channel_id, Tail(packets))

\* server.rs:141-150: the client channels in order, from channel_id on.
RECURSIVE ServerReceiveLoop(_, _, _, _, _, _)
ServerReceiveLoop(received, ce, S, C, inbox, channel_id) ==
    IF channel_id >= C THEN received
    ELSE ServerReceiveLoop(
            ServerReceiveChannelLoop(received, ce, channel_id,
                                     inbox[ServerReceiveChannel(S, channel_id)]),
            ce, S, C, inbox, channel_id + 1)

ServerDrained(S, C, inbox) ==
    [k \in DOMAIN inbox |->
        IF \E j \in 0..(C - 1) : ServerReceiveChannel(S, j) = k THEN <<>> ELSE inbox[k]]

\* server.rs:136-151, run_if(resource_exists::<MatchboxHost>)
server_receive_packets ==
    /\ h_pc = "receive_packets"
    /\ h_pc' = HostNextPc(h_pc)
    /\ IF ~host_exists
       THEN UNCHANGED <<server_received, host_in>>
       ELSE /\ server_received' = ServerReceiveLoop(server_received, client_entities,
                                     server_channels, client_channels, host_in, 0)
            /\ host_in' = ServerDrained(server_channels, client_channels, host_in)
    /\ UNCHANGED <<server_channels, client_channels, host_exists, host_added,
                   host_removed, host_socket, client_entities, clients_to_disconnect,
                   connections, next_entity, disconnect_events, server_state,
                   server_sent, host_peer_updates, updated_peers, host_out, budget, clientVars, link>>

\* server.rs:203-209: the requests read, in order.
RECURSIVE ReceivedDisconnectLoop(_, _, _)
ReceivedDisconnectLoop(queue, conns, events) ==
    IF events = <<>> THEN queue
    ELSE ReceivedDisconnectLoop(
            IF Head(events) \in DOMAIN conns
            THEN Append(queue, conns[Head(events)]) ELSE queue,
            conns, Tail(events))

\* server.rs:198-210, run_if(resource_exists::<MatchboxHost>).  A system that
\* does not run does not read its messages: they stay for its next run.
received_disconnect ==
    /\ h_pc = "received_disconnect"
    /\ h_pc' = HostNextPc(h_pc)
    /\ IF ~host_exists
       THEN UNCHANGED <<clients_to_disconnect, disconnect_events>>
       ELSE /\ clients_to_disconnect' =
                 ReceivedDisconnectLoop(clients_to_disconnect, connections,
                                        disconnect_events)
            /\ disconnect_events' = <<>>
    /\ UNCHANGED <<server_channels, client_channels, host_exists, host_added,
                   host_removed, host_socket, client_entities, connections,
                   next_entity, server_state, server_sent, server_received,
                   host_peer_updates, updated_peers, host_in, host_out, budget, clientVars, link>>

\* A host whose drain of the outbound queue ends at the first payload whose
\* handle does not resolve.
RECURSIVE ServerSendLoopStopsAtStale(_, _, _, _)
ServerSendLoopStopsAtStale(out, ce, conns, sent) ==
    IF sent = <<>> THEN out
    ELSE LET client_entity == Head(sent)[1]
             channel_id == Head(sent)[2]
             message == Head(sent)[3]
         IN  IF client_entity \in DOMAIN conns /\ conns[client_entity] \in DOMAIN ce
             THEN ServerSendLoopStopsAtStale(
                     Append(out, <<ServerSendChannel(channel_id),
                                   add_marker(message), conns[client_entity]>>),
                     ce, conns, Tail(sent))
             ELSE out

\* server.rs:159-179: the drain of the framework's outbound queue.
RECURSIVE ServerSendLoop(_, _, _, _)
ServerSendLoop(out, ce, conns, sent) ==
    IF sent = <<>> THEN out
    ELSE LET client_entity == Head(sent)[1]
             channel_id == Head(sent)[2]
             message == Head(sent)[3]
             next == IF client_entity \in DOMAIN conns
                        /\ conns[client_entity] \in DOMAIN ce
                     THEN Append(out, <<ServerSendChannel(channel_id),
                                        add_marker(message), conns[client_entity]>>)
                     ELSE out
         IN  ServerSendLoop(next, ce, conns, Tail(sent))

\* A host that serves a disconnection without despawning the handle.
RECURSIVE ServerDisconnectLoopKeepsHandle(_, _)
ServerDisconnectLoopKeepsHandle(acc, disconnect_ids) ==
    IF disconnect_ids = <<>> THEN acc
    ELSE LET peer_id == Head(disconnect_ids)
             next == IF peer_id \notin DOMAIN acc.ce THEN acc
                     ELSE [ce |-> Remove(acc.ce, peer_id),
                           out |-> Append(acc.out, <<SYSTEM_CHANNEL_ID,
                                       to_packet("HostRequestsDisconnect"), peer_id>>),
                           despawn |-> acc.despawn]
         IN  ServerDisconnectLoopKeepsHandle(next, Tail(disconnect_ids))

\* A host that serves a disconnection without telling the peer.
RECURSIVE ServerDisconnectLoopSilent(_, _)
ServerDisconnectLoopSilent(acc, disconnect_ids) ==
    IF disconnect_ids = <<>> THEN acc
    ELSE LET peer_id == Head(disconnect_ids)
             next == IF peer_id \notin DOMAIN acc.ce THEN acc
                     ELSE [ce |-> Remove(acc.ce, peer_id),
                           out |-> acc.out,
                           despawn |-> acc.despawn \cup {acc.ce[peer_id]}]
         IN  ServerDisconnectLoopSilent(next, Tail(disconnect_ids))

\* A host that requests the disconnection of a peer it no longer registers.
RECURSIVE ServerDisconnectLoopAlwaysRequests(_, _)
ServerDisconnectLoopAlwaysRequests(acc, disconnect_ids) ==
    IF disconnect_ids = <<>> THEN acc
    ELSE LET peer_id == Head(disconnect_ids)
             out == Append(acc.out, <<SYSTEM_CHANNEL_ID,
                              to_packet("HostRequestsDisconnect"), peer_id>>)
             next == IF peer_id \notin DOMAIN acc.ce
                     THEN [ce |-> acc.ce, out |-> out, despawn |-> acc.despawn]
                     ELSE [ce |-> Remove(acc.ce, peer_id),
                           out |-> out,
                           despawn |-> acc.despawn \cup {acc.ce[peer_id]}]
         IN  ServerDisconnectLoopAlwaysRequests(next, Tail(disconnect_ids))

\* A host that requests a disconnection and despawns the handle, but leaves
\* the peer in the registry.
RECURSIVE ServerDisconnectLoopKeepsEntry(_, _)
ServerDisconnectLoopKeepsEntry(acc, disconnect_ids) ==
    IF disconnect_ids = <<>> THEN acc
    ELSE LET peer_id == Head(disconnect_ids)
             next == IF peer_id \notin DOMAIN acc.ce THEN acc
                     ELSE [ce |-> acc.ce,
                           out |-> Append(acc.out, <<SYSTEM_CHANNEL_ID,
                                       to_packet("HostRequestsDisconnect"), peer_id>>),
                           despawn |-> acc.despawn \cup {acc.ce[peer_id]}]
         IN  ServerDisconnectLoopKeepsEntry(next, Tail(disconnect_ids))

\* server.rs:182-195: the pending disconnections, in order.
RECURSIVE ServerDisconnectLoop(_, _)
ServerDisconnectLoop(acc, disconnect_ids) ==
    IF disconnect_ids = <<>> THEN acc
    ELSE LET peer_id == Head(disconnect_ids)
             next == IF peer_id \notin DOMAIN acc.ce THEN acc
                     ELSE [ce |-> Remove(acc.ce, peer_id),
                           out |-> Append(acc.out, <<SYSTEM_CHANNEL_ID,
                                       to_packet("HostRequestsDisconnect"), peer_id>>),
                           despawn |-> acc.despawn \cup {acc.ce[peer_id]}]
         IN  ServerDisconnectLoop(next, Tail(disconnect_ids))

\* A host that serves the pending disconnections before it drains the
\* outbound queue.
server_send_packets_disconnects_first ==
    /\ h_pc = "send_packets"
    /\ h_pc' = HostNextPc(h_pc)
    /\ IF ~host_exists
       THEN UNCHANGED <<client_entities, clients_to_disconnect, connections,
                        server_sent, host_out>>
       ELSE LET acc == ServerDisconnectLoop([ce |-> client_entities,
                                             out |-> host_out, despawn |-> {}],
                                            clients_to_disconnect)
                out == ServerSendLoop(acc.out, acc.ce, connections, server_sent)
            IN  /\ server_sent' = <<>>
                /\ clients_to_disconnect' = <<>>
                /\ client_entities' = acc.ce
                /\ host_out' = out
                /\ connections' = ApplyCommands(connections, Empty, acc.despawn)
    /\ UNCHANGED <<server_channels, client_channels, host_exists, host_added,
                   host_removed, host_socket, next_entity, disconnect_events,
                   server_state, server_received, host_peer_updates, updated_peers,
                   host_in, budget, clientVars, link>>

\* server.rs:153-196, run_if(resource_exists::<MatchboxHost>)
server_send_packets ==
    /\ h_pc = "send_packets"
    /\ h_pc' = HostNextPc(h_pc)
    /\ IF ~host_exists
       THEN UNCHANGED <<client_entities, clients_to_disconnect, connections,
                        server_sent, host_out>>
       ELSE LET out == ServerSendLoop(host_out, client_entities, connections,
                                      server_sent)
                acc == ServerDisconnectLoop([ce |-> client_entities, out |-> out,
                                             despawn |-> {}], clients_to_disconnect)
            IN  /\ server_sent' = <<>>
                /\ clients_to_disconnect' = <<>>
                /\ client_entities' = acc.ce
                /\ host_out' = acc.out
                /\ connections' = ApplyCommands(connections, Empty, acc.despawn)
    /\ UNCHANGED <<server_channels, client_channels, host_exists, host_added,
                   host_removed, host_socket, next_entity, disconnect_events,
                   server_state, server_received, host_peer_updates, updated_peers, host_in, budget, clientVars, link>>

\* The application's Update schedule, between PreUpdate and PostUpdate.
HostUpdate ==
    /\ h_pc = "update"
    /\ h_pc' = HostNextPc(h_pc)
    /\ UNCHANGED <<server_channels, client_channels, host_exists, host_added,
                   host_removed, host_socket, client_entities, clients_to_disconnect,
                   connections, next_entity, disconnect_events, server_state,
                   server_sent, server_received, host_peer_updates, updated_peers, host_in,
                   host_out, budget, clientVars, link>>

\* ========================================================== the client
\* client.rs:12-37.  PreUpdate chain, Update, then PostUpdate: set_disconnected
\* is in ClientSystems::Send, which precedes ClientSystems::SendPackets.
ClientTickStart == "receive_packets"

ClientNextPc(pc) ==
    CASE pc = "receive_packets" -> "receive_system"
      [] pc = "receive_system" -> "update_peers"
      [] pc = "update_peers" -> "update"
      [] pc = "update" -> "set_disconnected"
      [] pc = "set_disconnected" -> "send_packets"
      [] pc = "send_packets" -> "receive_packets"

\* MatchboxSocket::all_channels_closed / any_channel_closed
all_channels_closed(socket) == socket = "closed"

any_channel_closed(socket) == socket \in {"partial", "closed"}

\* client.rs:187-189
is_connected == host_peer_id # NoPeer

\* client.rs:39-44
no_host_defined == IF client_exists THEN host_peer_id = NoPeer ELSE TRUE

\* client.rs:123-131: the datagrams of one host->client channel.
RECURSIVE ClientReceiveChannelLoop(_, _, _)
ClientReceiveChannelLoop(received, channel_id, packets) ==
    IF packets = <<>> THEN received
    ELSE ClientReceiveChannelLoop(
            Append(received, <<channel_id, strip_marker(Head(packets)[2])>>),
            channel_id, Tail(packets))

\* client.rs:117-132: the server channels in order, from channel_id on.
RECURSIVE ClientReceiveLoop(_, _, _, _)
ClientReceiveLoop(received, S, inbox, channel_id) ==
    IF channel_id >= S THEN received
    ELSE ClientReceiveLoop(
            ClientReceiveChannelLoop(received, channel_id,
                                     inbox[ClientReceiveChannel(channel_id)]),
            S, inbox, channel_id + 1)

ClientDrained(S, inbox) ==
    [k \in DOMAIN inbox |->
        IF \E i \in 0..(S - 1) : ClientReceiveChannel(i) = k THEN <<>> ELSE inbox[k]]

\* client.rs:107-133, run_if(resource_exists::<MatchboxClient>)
client_receive_packets ==
    /\ c_pc = "receive_packets"
    /\ c_pc' = ClientNextPc(c_pc)
    /\ IF ~client_exists \/ all_channels_closed(client_socket)
       THEN UNCHANGED <<client_received, client_in>>
       ELSE /\ client_received' =
                 ClientReceiveLoop(client_received, server_channels, client_in, 0)
            /\ client_in' = ClientDrained(server_channels, client_in)
    /\ UNCHANGED <<server_channels, client_channels, hostVars, client_exists,
                   client_removed, client_socket, host_peer_id, should_disconnect,
                   client_state, client_sent, client_peer_updates, client_out,
                   link, budget>>

\* A client that takes any decodable control message for the host's greeting.
ClientSystemMessageAnyGreets(acc, peer_id, message) ==
    IF message = "Err" THEN acc
    ELSE [acc EXCEPT !.host_peer_id = peer_id, !.state = "Connected"]

\* A client that takes a ClientDisconnects for the host's request to leave.
ClientSystemMessageGoodbyeLeaves(acc, peer_id, message) ==
    CASE message = "ConnectedToHost" ->
            [acc EXCEPT !.host_peer_id = peer_id, !.state = "Connected"]
      [] message \in {"HostRequestsDisconnect", "ClientDisconnects"} ->
            [acc EXCEPT !.should_disconnect = TRUE]
      [] OTHER -> acc

\* client.rs:90-103: the effect of one decoded control message.
ClientSystemMessage(acc, peer_id, message) ==
    CASE message = "ConnectedToHost" ->
            [acc EXCEPT !.host_peer_id = peer_id, !.state = "Connected"]
      [] message = "HostRequestsDisconnect" ->
            [acc EXCEPT !.should_disconnect = TRUE]
      [] OTHER -> acc

\* client.rs:80-104: the drain of the control channel.
RECURSIVE ClientSystemLoop(_, _)
ClientSystemLoop(acc, packets) ==
    IF packets = <<>> THEN acc
    ELSE ClientSystemLoop(
            ClientSystemMessage(acc, Head(packets)[1], from_packet(Head(packets)[2])),
            Tail(packets))

\* A client that drains the control channel of a closed socket too.
client_receive_system_channel_packets_when_closed ==
    /\ c_pc = "receive_system"
    /\ c_pc' = ClientNextPc(c_pc)
    /\ IF ~client_exists
       THEN UNCHANGED <<host_peer_id, should_disconnect, client_state, client_in>>
       ELSE LET acc == ClientSystemLoop([host_peer_id |-> host_peer_id,
                                         should_disconnect |-> should_disconnect,
                                         state |-> client_state],
                                        client_in[SYSTEM_CHANNEL_ID])
            IN  /\ host_peer_id' = acc.host_peer_id
                /\ should_disconnect' = acc.should_disconnect
                /\ client_state' = acc.state
                /\ client_in' = [client_in EXCEPT ![SYSTEM_CHANNEL_ID] = <<>>]
    /\ UNCHANGED <<server_channels, client_channels, hostVars, client_exists,
                   client_removed, client_socket, client_sent, client_received,
                   client_peer_updates, client_out, link, budget>>

\* client.rs:68-105, run_if(resource_exists::<MatchboxClient>)
client_receive_system_channel_packets ==
    /\ c_pc = "receive_system"
    /\ c_pc' = ClientNextPc(c_pc)
    /\ IF ~client_exists \/ all_channels_closed(client_socket)
       THEN UNCHANGED <<host_peer_id, should_disconnect, client_state, client_in>>
       ELSE LET acc == ClientSystemLoop([host_peer_id |-> host_peer_id,
                                         should_disconnect |-> should_disconnect,
                                         state |-> client_state],
                                        client_in[SYSTEM_CHANNEL_ID])
            IN  /\ host_peer_id' = acc.host_peer_id
                /\ should_disconnect' = acc.should_disconnect
                /\ client_state' = acc.state
                /\ client_in' = [client_in EXCEPT ![SYSTEM_CHANNEL_ID] = <<>>]
    /\ UNCHANGED <<server_channels, client_channels, hostVars, client_exists,
                   client_removed, client_socket, client_sent, client_received,
                   client_peer_updates, client_out, link, budget>>

\* client.rs:59-65: does the loop over the reported peers remove the resource?
UpdatePeersRemoves(host, peers) ==
    \E k \in 1..Len(peers) : peers[k][2] = "Disconnected" /\ peers[k][1] # host

\* commands.remove_resource::<MatchboxClient>(): the resource and its socket go.
ClientResourceRemoved ==
    /\ client_exists' = FALSE
    /\ client_removed' = TRUE
    /\ client_socket' = "closed"
    /\ host_peer_id' = NoPeer
    /\ should_disconnect' = FALSE

\* A client that keeps its resource when the peer enumeration fails.
update_peers_ignores_failure ==
    /\ c_pc = "update_peers"
    /\ c_pc' = ClientNextPc(c_pc)
    /\ IF ~client_exists \/ client_socket = "closed"
       THEN UNCHANGED <<client_exists, client_removed, client_socket, host_peer_id,
                        should_disconnect, client_peer_updates>>
       ELSE /\ client_peer_updates' = <<>>
            /\ IF host_peer_id # NoPeer
                  /\ UpdatePeersRemoves(host_peer_id, client_peer_updates)
               THEN ClientResourceRemoved
               ELSE UNCHANGED <<client_exists, client_removed, client_socket,
                                host_peer_id, should_disconnect>>
    /\ UNCHANGED <<server_channels, client_channels, hostVars, client_state,
                   client_sent, client_received, client_in, client_out, link, budget>>

\* client.rs:50-66, run_if(resource_exists::<MatchboxClient>)
update_peers ==
    /\ c_pc = "update_peers"
    /\ c_pc' = ClientNextPc(c_pc)
    /\ IF ~client_exists
       THEN UNCHANGED <<client_exists, client_removed, client_socket, host_peer_id,
                        should_disconnect, client_peer_updates>>
       ELSE IF client_socket = "closed"
       THEN ClientResourceRemoved /\ UNCHANGED client_peer_updates
       ELSE /\ client_peer_updates' = <<>>
            /\ IF host_peer_id # NoPeer
                  /\ UpdatePeersRemoves(host_peer_id, client_peer_updates)
               THEN ClientResourceRemoved
               ELSE UNCHANGED <<client_exists, client_removed, client_socket,
                                host_peer_id, should_disconnect>>
    /\ UNCHANGED <<server_channels, client_channels, hostVars, client_state,
                   client_sent, client_received, client_in, client_out, link, budget>>

\* The application's Update schedule, between PreUpdate and PostUpdate.
ClientUpdate ==
    /\ c_pc = "update"
    /\ c_pc' = ClientNextPc(c_pc)
    /\ UNCHANGED <<server_channels, client_channels, hostVars, client_exists,
                   client_removed, client_socket, host_peer_id, should_disconnect,
                   client_state, client_sent, client_received, client_peer_updates,
                   client_in, client_out, link, budget>>

\* A client whose state is left alone when its resource is removed.
set_disconnected_skipped ==
    /\ c_pc = "set_disconnected"
    /\ c_pc' = ClientNextPc(c_pc)
    /\ client_removed' = FALSE
    /\ UNCHANGED <<server_channels, client_channels, hostVars, client_exists,
                   client_socket, host_peer_id, should_disconnect, client_state,
                   client_sent, client_received, client_peer_updates, client_in,
                   client_out, link, budget>>

\* client.rs:46-48, run_if(resource_removed::<MatchboxClient>)
set_disconnected ==
    /\ c_pc = "set_disconnected"
    /\ c_pc' = ClientNextPc(c_pc)
    /\ client_removed' = FALSE
    /\ client_state' = IF client_removed THEN "Disconnected" ELSE client_state
    /\ UNCHANGED <<server_channels, client_channels, hostVars, client_exists,
                   client_socket, host_peer_id, should_disconnect, client_sent,
                   client_received, client_peer_updates, client_in, client_out,
                   link, budget>>

\* A client that sends its payloads on the control channel.
RECURSIVE ClientSendLoopOnControl(_, _, _, _)
ClientSendLoopOnControl(out, S, host, sent) ==
    IF sent = <<>> THEN out
    ELSE ClientSendLoopOnControl(
            Append(out, <<SYSTEM_CHANNEL_ID, add_marker(Head(sent)[2]), host>>),
            S, host, Tail(sent))

\* client.rs:150-157: the drain of the framework's outbound queue.
RECURSIVE ClientSendLoop(_, _, _, _)
ClientSendLoop(out, S, host, sent) ==
    IF sent = <<>> THEN out
    ELSE ClientSendLoop(
            Append(out, <<ClientSendChannel(S, Head(sent)[1]),
                          add_marker(Head(sent)[2]), host>>),
            S, host, Tail(sent))

\* A client that drains the outbound queue whether or not it has a host.
client_send_packets_without_host ==
    /\ c_pc = "send_packets"
    /\ c_pc' = ClientNextPc(c_pc)
    /\ IF ~client_exists \/ any_channel_closed(client_socket)
       THEN UNCHANGED <<client_socket, host_peer_id, should_disconnect, client_state,
                        client_sent, client_out>>
       ELSE /\ client_out' = IF host_peer_id = NoPeer THEN client_out
                             ELSE ClientSendLoop(client_out, server_channels,
                                                 host_peer_id, client_sent)
            /\ client_sent' = <<>>
            /\ IF should_disconnect /\ host_peer_id # NoPeer
               THEN /\ client_socket' = "closed"
                    /\ host_peer_id' = NoPeer
                    /\ should_disconnect' = FALSE
                    /\ client_state' = "Disconnected"
               ELSE UNCHANGED <<client_socket, host_peer_id, should_disconnect,
                                client_state>>
    /\ UNCHANGED <<server_channels, client_channels, hostVars, client_exists,
                   client_removed, client_received, client_peer_updates, client_in,
                   link, budget>>

\* A client whose send_packets does not ask whether a channel is closed.
client_send_packets_ignores_closed ==
    /\ c_pc = "send_packets"
    /\ c_pc' = ClientNextPc(c_pc)
    /\ IF no_host_defined \/ ~client_exists
       THEN UNCHANGED <<client_socket, host_peer_id, should_disconnect, client_state,
                        client_sent, client_out>>
       ELSE /\ client_out' = ClientSendLoop(client_out, server_channels,
                                            host_peer_id, client_sent)
            /\ client_sent' = <<>>
            /\ IF should_disconnect
               THEN /\ client_socket' = "closed"
                    /\ host_peer_id' = NoPeer
                    /\ should_disconnect' = FALSE
                    /\ client_state' = "Disconnected"
               ELSE UNCHANGED <<client_socket, host_peer_id, should_disconnect,
                                client_state>>
    /\ UNCHANGED <<server_channels, client_channels, hostVars, client_exists,
                   client_removed, client_received, client_peer_updates, client_in,
                   link, budget>>

\* client.rs:135-165,
\* run_if(not(no_host_defined).and(resource_exists::<MatchboxClient>))
client_send_packets ==
    /\ c_pc = "send_packets"
    /\ c_pc' = ClientNextPc(c_pc)
    /\ IF no_host_defined \/ ~client_exists \/ any_channel_closed(client_socket)
       THEN UNCHANGED <<client_socket, host_peer_id, should_disconnect, client_state,
                        client_sent, client_out>>
       ELSE /\ client_out' = ClientSendLoop(client_out, server_channels,
                                            host_peer_id, client_sent)
            /\ client_sent' = <<>>
            /\ IF should_disconnect
               THEN /\ client_socket' = "closed"
                    /\ host_peer_id' = NoPeer
                    /\ should_disconnect' = FALSE
                    /\ client_state' = "Disconnected"
               ELSE UNCHANGED <<client_socket, host_peer_id, should_disconnect,
                                client_state>>
    /\ UNCHANGED <<server_channels, client_channels, hostVars, client_exists,
                   client_removed, client_received, client_peer_updates, client_in,
                   link, budget>>

\* ====================================================== the application
\* Application code runs between ticks and in the Update schedule.
HostAppRuns == h_pc \in {HostTickStart, "update"}

ClientAppRuns == c_pc \in {ClientTickStart, "update"}

\* The framework queues a payload for a connected client (ServerMessages::send).
AppServerSend(client_entity, channel_id, message) ==
    /\ HostAppRuns
    /\ budget.host < MaxHostEvents
    /\ client_entity \in DOMAIN connections
    /\ channel_id \in 0..(server_channels - 1)
    /\ server_sent' = Append(server_sent, <<client_entity, channel_id, message>>)
    /\ budget' = Spend("host")
    /\ UNCHANGED <<server_channels, client_channels, h_pc, host_exists, host_added,
                   host_removed, host_socket, client_entities, clients_to_disconnect,
                   connections, next_entity, disconnect_events, server_state,
                   server_received, host_peer_updates, updated_peers, host_in, host_out,
                   clientVars, link>>

\* The application writes DisconnectRequest { client } (tests/backend.rs:90-92).
AppDisconnectRequest(client) ==
    /\ HostAppRuns
    /\ budget.host < MaxHostEvents
    /\ client \in 1..(next_entity - 1)
    /\ disconnect_events' = Append(disconnect_events, client)
    /\ budget' = Spend("host")
    /\ UNCHANGED <<server_channels, client_channels, h_pc, host_exists, host_added,
                   host_removed, host_socket, client_entities, clients_to_disconnect,
                   connections, next_entity, server_state, server_sent,
                   server_received, host_peer_updates, updated_peers, host_in, host_out,
                   clientVars, link>>

\* The orders in which HashMap::keys can yield the set ks.
RECURSIVE KeyOrders(_)
KeyOrders(ks) ==
    IF ks = {} THEN {<<>>}
    ELSE UNION {{<<k>> \o rest : rest \in KeyOrders(ks \ {k})} : k \in ks}

\* server.rs:239-242
disconnect_all ==
    /\ HostAppRuns
    /\ host_exists
    /\ budget.host < MaxHostEvents
    /\ \E keys \in KeyOrders(DOMAIN client_entities) :
          clients_to_disconnect' = clients_to_disconnect \o keys
    /\ budget' = Spend("host")
    /\ UNCHANGED <<server_channels, client_channels, h_pc, host_exists, host_added,
                   host_removed, host_socket, client_entities, connections,
                   next_entity, disconnect_events, server_state, server_sent,
                   server_received, host_peer_updates, updated_peers, host_in, host_out,
                   clientVars, link>>

\* The application removes the MatchboxHost resource (tests/backend.rs:132).
AppRemoveHost ==
    /\ HostAppRuns
    /\ host_exists
    /\ host_exists' = FALSE
    /\ host_removed' = TRUE
    /\ host_socket' = "closed"
    /\ client_entities' = Empty
    /\ clients_to_disconnect' = <<>>
    /\ UNCHANGED <<server_channels, client_channels, h_pc, host_added, connections,
                   next_entity, disconnect_events, server_state, server_sent,
                   server_received, host_peer_updates, updated_peers, host_in, host_out,
                   clientVars, link, budget>>

\* The framework queues a payload for the host (ClientMessages::send).
AppClientSend(channel_id, message) ==
    /\ ClientAppRuns
    /\ budget.client < MaxClientEvents
    /\ channel_id \in 0..(client_channels - 1)
    /\ client_sent' = Append(client_sent, <<channel_id, message>>)
    /\ budget' = Spend("client")
    /\ UNCHANGED <<server_channels, client_channels, hostVars, c_pc, client_exists,
                   client_removed, client_socket, host_peer_id, should_disconnect,
                   client_state, client_received, client_peer_updates, client_in,
                   client_out, link>>

\* A disconnect() that sets the flag and sends the host nothing.
disconnect_without_message ==
    /\ ClientAppRuns
    /\ client_exists
    /\ budget.client < MaxClientEvents
    /\ budget' = Spend("client")
    /\ IF all_channels_closed(client_socket) \/ host_peer_id = NoPeer
       THEN UNCHANGED <<should_disconnect, client_out>>
       ELSE /\ client_out' = client_out
            /\ should_disconnect' = TRUE
    /\ UNCHANGED <<server_channels, client_channels, hostVars, c_pc, client_exists,
                   client_removed, client_socket, host_peer_id, client_state,
                   client_sent, client_received, client_peer_updates, client_in,
                   link>>

\* A disconnect() that does not look for a recorded host.
disconnect_without_host_check ==
    /\ ClientAppRuns
    /\ client_exists
    /\ budget.client < MaxClientEvents
    /\ budget' = Spend("client")
    /\ IF all_channels_closed(client_socket)
       THEN UNCHANGED <<should_disconnect, client_out>>
       ELSE /\ client_out' = Append(client_out, <<SYSTEM_CHANNEL_ID,
                                       to_packet("ClientDisconnects"), host_peer_id>>)
            /\ should_disconnect' = TRUE
    /\ UNCHANGED <<server_channels, client_channels, hostVars, c_pc, client_exists,
                   client_removed, client_socket, host_peer_id, client_state,
                   client_sent, client_received, client_peer_updates, client_in,
                   link>>

\* client.rs:191-203
disconnect ==
    /\ ClientAppRuns
    /\ client_exists
    /\ budget.client < MaxClientEvents
    /\ budget' = Spend("client")
    /\ IF all_channels_closed(client_socket) \/ host_peer_id = NoPeer
       THEN UNCHANGED <<should_disconnect, client_out>>
       ELSE /\ client_out' = Append(client_out, <<SYSTEM_CHANNEL_ID,
                                       to_packet("ClientDisconnects"), host_peer_id>>)
            /\ should_disconnect' = TRUE
    /\ UNCHANGED <<server_channels, client_channels, hostVars, c_pc, client_exists,
                   client_removed, client_socket, host_peer_id, client_state,
                   client_sent, client_received, client_peer_updates, client_in,
                   link>>

\* The application removes the MatchboxClient resource (tests/backend.rs:50).
AppRemoveClient ==
    /\ ClientAppRuns
    /\ client_exists
    /\ ClientResourceRemoved
    /\ UNCHANGED <<server_channels, client_channels, hostVars, c_pc, client_state,
                   client_sent, client_received, client_peer_updates, client_in,
                   client_out, link, budget>>

\* ========================================================== the socket
\* The socket buffers what arrives until the system that reads it runs, once
\* per tick.  An arrival is modelled at the start of the tick that reads it:
\* when within the interval between two reads it arrived makes no difference
\* to the code.
HostArrives == h_pc = HostTickStart

ClientArrives == c_pc = ClientTickStart

\* try_update_peers (server.rs:55): the socket reports a peer's new state.
HostPeerReport(peer, state) ==
    /\ HostArrives
    /\ host_exists
    /\ budget.host < MaxHostEvents
    /\ host_peer_updates' = Append(host_peer_updates, <<peer, state>>)
    /\ budget' = Spend("host")
    /\ UNCHANGED <<updated_peers, server_channels, client_channels, h_pc, host_exists, host_added,
                   host_removed, host_socket, client_entities, clients_to_disconnect,
                   connections, next_entity, disconnect_events, server_state,
                   server_sent, server_received, host_in, host_out, clientVars, link>>

\* Socket channels the host reads (server.rs:107, 142).
HostReadChannels ==
    {SYSTEM_CHANNEL_ID} \cup
    {ServerReceiveChannel(server_channels, j) : j \in 0..(client_channels - 1)}

\* channel.receive() (server.rs:111, 143): a datagram of a remote peer arrives.
HostInject(peer, index, packet) ==
    /\ HostArrives
    /\ host_exists
    /\ budget.host < MaxHostEvents
    /\ index \in HostReadChannels
    /\ packet \in IF index = SYSTEM_CHANNEL_ID THEN SystemPackets ELSE DataPackets
    /\ host_in' = [host_in EXCEPT ![index] = Append(@, <<peer, packet>>)]
    /\ budget' = Spend("host")
    /\ UNCHANGED <<server_channels, client_channels, h_pc, host_exists, host_added,
                   host_removed, host_socket, client_entities, clients_to_disconnect,
                   connections, next_entity, disconnect_events, server_state,
                   server_sent, server_received, host_peer_updates, updated_peers, host_out,
                   clientVars, link>>

\* The host socket fails: try_update_peers returns Err from now on.
HostSocketFails ==
    /\ h_pc \in {"receive_system", "update_client_presence"}
    /\ host_exists
    /\ host_socket = "open"
    /\ host_socket' = "closed"
    /\ UNCHANGED <<server_channels, client_channels, h_pc, host_exists, host_added,
                   host_removed, client_entities, clients_to_disconnect, connections,
                   next_entity, disconnect_events, server_state, server_sent,
                   server_received, host_peer_updates, updated_peers, host_in, host_out,
                   clientVars, link, budget>>

\* try_update_peers (client.rs:51): the socket reports a peer's new state.
ClientPeerReport(peer, state) ==
    /\ ClientArrives
    /\ client_exists
    /\ client_socket # "closed"
    /\ budget.client < MaxClientEvents
    /\ client_peer_updates' = Append(client_peer_updates, <<peer, state>>)
    /\ budget' = Spend("client")
    /\ UNCHANGED <<server_channels, client_channels, hostVars, c_pc, client_exists,
                   client_removed, client_socket, host_peer_id, should_disconnect,
                   client_state, client_sent, client_received, client_in,
                   client_out, link>>

\* Socket channels the client reads (client.rs:76, 119).
ClientReadChannels ==
    {SYSTEM_CHANNEL_ID} \cup
    {ClientReceiveChannel(i) : i \in 0..(server_channels - 1)}

\* channel.receive() (client.rs:80, 123): a datagram of a remote peer arrives.
\* What arrived before the socket was closed is still in the channel's buffer
\* afterwards, so arrivals are modelled for a closed socket too.
ClientInject(peer, index, packet) ==
    /\ ClientArrives
    /\ client_exists
    /\ budget.client < MaxClientEvents
    /\ index \in ClientReadChannels
    /\ packet \in IF index = SYSTEM_CHANNEL_ID THEN SystemPackets ELSE DataPackets
    /\ client_in' = [client_in EXCEPT ![index] = Append(@, <<peer, packet>>)]
    /\ budget' = Spend("client")
    /\ UNCHANGED <<server_channels, client_channels, hostVars, c_pc, client_exists,
                   client_removed, client_socket, host_peer_id, should_disconnect,
                   client_state, client_sent, client_received, client_peer_updates,
                   client_out, link>>

\* One data channel of the client socket closes (any_channel_closed).
ClientChannelCloses ==
    /\ c_pc = "send_packets"
    /\ client_exists
    /\ client_socket = "open"
    /\ client_socket' = "partial"
    /\ UNCHANGED <<server_channels, client_channels, hostVars, c_pc, client_exists,
                   client_removed, host_peer_id, should_disconnect, client_state,
                   client_sent, client_received, client_peer_updates, client_in,
                   client_out, link, budget>>

\* The client socket fails: every channel closed, try_update_peers returns Err.
ClientSocketFails ==
    /\ client_exists
    /\ client_socket # "closed"
    /\ client_socket' = "closed"
    /\ UNCHANGED <<server_channels, client_channels, hostVars, c_pc, client_exists,
                   client_removed, host_peer_id, should_disconnect, client_state,
                   client_sent, client_received, client_peer_updates, client_in,
                   client_out, link, budget>>

\* ========================================================= the network
\* The two sockets connect: the host's socket reports the client's peer.
PeerConnects ==
    /\ HostArrives
    /\ link = "none"
    /\ host_exists /\ host_socket = "open"
    /\ client_exists /\ client_socket = "open"
    /\ link' = "up"
    /\ host_peer_updates' = Append(host_peer_updates, <<ClientPeer, "Connected">>)
    /\ UNCHANGED <<updated_peers, server_channels, client_channels, h_pc, host_exists, host_added,
                   host_removed, host_socket, client_entities, clients_to_disconnect,
                   connections, next_entity, disconnect_events, server_state,
                   server_sent, server_received, host_in, host_out, clientVars,
                   budget>>

\* The connection ends, with or without notice; both sockets report it.
PeerDisconnects ==
    /\ HostArrives /\ ClientArrives
    /\ link = "up"
    /\ link' = "down"
    /\ host_peer_updates' =
          IF host_exists /\ host_socket = "open"
          THEN Append(host_peer_updates, <<ClientPeer, "Disconnected">>)
          ELSE host_peer_updates
    /\ client_peer_updates' =
          IF client_exists /\ client_socket # "closed"
          THEN Append(client_peer_updates, <<HostPeer, "Disconnected">>)
          ELSE client_peer_updates
    /\ UNCHANGED <<updated_peers, server_channels, client_channels, h_pc, host_exists, host_added,
                   host_removed, host_socket, client_entities, clients_to_disconnect,
                   connections, next_entity, disconnect_events, server_state,
                   server_sent, server_received, host_in, host_out, c_pc,
                   client_exists, client_removed, client_socket, host_peer_id,
                   should_disconnect, client_state, client_sent, client_received,
                   client_in, client_out, budget>>

\* Positions of out whose datagram is the oldest of its channel for peer `to`.
Deliverable(out, to) ==
    {k \in 1..Len(out) :
        /\ out[k][3] = to
        /\ \A m \in 1..(k - 1) : ~(out[m][3] = to /\ out[m][1] = out[k][1])}

DropAt(seq, k) == SubSeq(seq, 1, k - 1) \o SubSeq(seq, k + 1, Len(seq))

\* A datagram the host sent to the client arrives at the client's socket.
NetToClient ==
    /\ ClientArrives
    /\ link = "up"
    /\ client_exists /\ client_socket # "closed"
    /\ \E k \in Deliverable(host_out, ClientPeer) :
          /\ client_in' = [client_in EXCEPT ![host_out[k][1]] =
                              Append(@, <<HostPeer, host_out[k][2]>>)]
          /\ host_out' = DropAt(host_out, k)
    /\ UNCHANGED <<server_channels, client_channels, h_pc, host_exists, host_added,
                   host_removed, host_socket, client_entities, clients_to_disconnect,
                   connections, next_entity, disconnect_events, server_state,
                   server_sent, server_received, host_peer_updates, updated_peers, host_in,
                   c_pc, client_exists, client_removed, client_socket, host_peer_id,
                   should_disconnect, client_state, client_sent, client_received,
                   client_peer_updates, client_out, link, budget>>

\* A datagram the client sent to the host arrives at the host's socket.
NetToHost ==
    /\ HostArrives
    /\ link = "up"
    /\ host_exists /\ host_socket = "open"
    /\ \E k \in Deliverable(client_out, HostPeer) :
          /\ host_in' = [host_in EXCEPT ![client_out[k][1]] =
                            Append(@, <<ClientPeer, client_out[k][2]>>)]
          /\ client_out' = DropAt(client_out, k)
    /\ UNCHANGED <<server_channels, client_channels, h_pc, host_exists, host_added,
                   host_removed, host_socket, client_entities, clients_to_disconnect,
                   connections, next_entity, disconnect_events, server_state,
                   server_sent, server_received, host_peer_updates, updated_peers, host_out,
                   c_pc, client_exists, client_removed, client_socket, host_peer_id,
                   should_disconnect, client_state, client_sent, client_received,
                   client_peer_updates, client_in, link, budget>>

\* The transport is unreliable: a datagram in flight is lost.
NetLoses ==
    /\ \/ \E k \in Deliverable(host_out, ClientPeer) :
             /\ ClientArrives
             /\ host_out' = DropAt(host_out, k)
             /\ UNCHANGED client_out
       \/ \E k \in Deliverable(client_out, HostPeer) :
             /\ HostArrives
             /\ client_out' = DropAt(client_out, k)
             /\ UNCHANGED host_out
    /\ UNCHANGED <<server_channels, client_channels, h_pc, host_exists, host_added,
                   host_removed, host_socket, client_entities, clients_to_disconnect,
                   connections, next_entity, disconnect_events, server_state,
                   server_sent, server_received, host_peer_updates, updated_peers, host_in,
                   c_pc, client_exists, client_removed, client_socket, host_peer_id,
                   should_disconnect, client_state, client_sent, client_received,
                   client_peer_updates, client_in, link, budget>>

\* ================================================================== Init
\* MatchboxHost::new (server.rs:220-233) and MatchboxClient::new
\* (client.rs:175-185), each inserted as a resource; no tick has run.
SessionInit(S, C) ==
    /\ server_channels = S
    /\ client_channels = C
    /\ h_pc = HostTickStart
    /\ host_exists = TRUE
    /\ host_added = TRUE
    /\ host_removed = FALSE
    /\ host_socket = "open"
    /\ client_entities = Empty
    /\ clients_to_disconnect = <<>>
    /\ connections = Empty
    /\ next_entity = 1
    /\ disconnect_events = <<>>
    /\ server_state = "Stopped"
    /\ server_sent = <<>>
    /\ server_received = <<>>
    /\ host_peer_updates = <<>>
    /\ updated_peers = <<>>
    /\ host_in = [k \in 0..(server_channels + client_channels) |-> <<>>]
    /\ host_out = <<>>
    /\ c_pc = ClientTickStart
    /\ client_exists = TRUE
    /\ client_removed = FALSE
    /\ client_socket = "open"
    /\ host_peer_id = NoPeer
    /\ should_disconnect = FALSE
    /\ client_state = "Connecting"
    /\ client_sent = <<>>
    /\ client_received = <<>>
    /\ client_peer_updates = <<>>
    /\ client_in = [k \in 0..(server_channels + client_channels) |-> <<>>]
    /\ client_out = <<>>
    /\ link = "none"
    /\ budget = [host |-> 0, client |-> 0]

Init == \E counts \in ChannelCounts : SessionInit(counts[1], counts[2])

\* Every pair of channel counts up to MaxChannels.
InitChannels == \E S \in 0..MaxChannels, C \in 0..MaxChannels : SessionInit(S, C)

\* ========================================================= specifications
HostTick ==
    \/ set_running
    \/ server_receive_system_channel_packets
    \/ server_receive_packets
    \/ received_disconnect
    \/ HostUpdate
    \/ set_stopped
    \/ update_client_presence
    \/ server_send_packets

ClientTick ==
    \/ client_receive_packets
    \/ client_receive_system_channel_packets
    \/ update_peers
    \/ ClientUpdate
    \/ set_disconnected
    \/ client_send_packets

HostApp ==
    \/ \E e \in Entities, ch \in 0..(server_channels - 1), b \in Payloads :
          AppServerSend(e, ch, b)
    \/ \E e \in Entities : AppDisconnectRequest(e)
    \/ disconnect_all
    \/ AppRemoveHost

ClientApp ==
    \/ \E ch \in 0..(client_channels - 1), b \in Payloads : AppClientSend(ch, b)
    \/ disconnect
    \/ AppRemoveClient

HostSocket ==
    \/ \E p \in Peers, st \in PeerStates : HostPeerReport(p, st)
    \/ \E p \in Peers, k \in HostReadChannels, pkt \in SystemPackets \cup DataPackets :
          HostInject(p, k, pkt)
    \/ HostSocketFails

ClientSocket ==
    \/ \E p \in {HostPeer, OtherPeer}, st \in PeerStates : ClientPeerReport(p, st)
    \/ \E p \in {HostPeer, OtherPeer}, k \in ClientReadChannels,
          pkt \in SystemPackets \cup DataPackets : ClientInject(p, k, pkt)
    \/ ClientChannelCloses
    \/ ClientSocketFails

Network ==
    \/ PeerConnects
    \/ PeerDisconnects
    \/ NetToClient
    \/ NetToHost
    \/ NetLoses

\* The host against every behaviour of its socket and its application.
HostNext == HostTick \/ HostApp \/ HostSocket

SpecHost == Init /\ [][HostNext]_vars

\* The client against every behaviour of its socket and its application.
ClientNext == ClientTick \/ ClientApp \/ ClientSocket

SpecClient == Init /\ [][ClientNext]_vars

\* Host and client joined by the network.  A tick reads its inputs before it
\* writes its outputs, so concurrent ticks of the two roles are equivalent to
\* some serial order of them; the two applications are ticked one at a time,
\* as app.update() is called in tests/backend.rs:52-53, 94-95, 298-299.
NetBudget == budget.host + budget.client < MaxNetEvents

\* A payload is opaque to the transport: the joined applications send one.
NetPayload == <<65, 66>>

NetHostApp ==
    \/ \E e \in Entities, ch \in 0..(server_channels - 1) :
          AppServerSend(e, ch, NetPayload)
    \/ \E e \in Entities : AppDisconnectRequest(e)
    \/ disconnect_all
    \/ AppRemoveHost

NetClientApp ==
    \/ \E ch \in 0..(client_channels - 1) : AppClientSend(ch, NetPayload)
    \/ disconnect
    \/ AppRemoveClient

HostTurn == h_pc # HostTickStart \/ c_pc = ClientTickStart

ClientTurn == c_pc # ClientTickStart \/ h_pc = HostTickStart

Next ==
    \/ HostTurn /\ HostTick
    \/ ClientTurn /\ ClientTick
    \/ NetBudget /\ NetHostApp
    \/ NetBudget /\ NetClientApp
    \/ Network

Spec == Init /\ [][Next]_vars

\* Connection bring-up: both applications are ticked for ever, in turn, and
\* the network delivers what is in flight; nothing fails and nobody leaves.
\* The fairness is strong because a tick of one role, and a delivery, is
\* enabled only between the ticks of the other role.
BringUpNext ==
    \/ HostTurn /\ HostTick
    \/ ClientTurn /\ ClientTick
    \/ \E e \in Entities, ch \in 0..(server_channels - 1), b \in Payloads :
          NetBudget /\ AppServerSend(e, ch, b)
    \/ \E ch \in 0..(client_channels - 1), b \in Payloads :
          NetBudget /\ AppClientSend(ch, b)
    \/ PeerConnects
    \/ NetToClient
    \/ NetToHost

SpecBringUp ==
    /\ Init
    /\ [][BringUpNext]_vars
    /\ SF_vars(HostTurn /\ HostTick)
    /\ SF_vars(ClientTurn /\ ClientTick)
    /\ SF_vars(NetToClient)
    /\ SF_vars(NetToHost)

\* The data path of a session, for every pair of channel counts.  Each
\* payload carries the number of the logical channel it was sent on, so that
\* what arrives can be compared with what was sent.
ChannelsNext ==
    \/ HostTurn /\ HostTick
    \/ ClientTurn /\ ClientTick
    \/ \E e \in Entities, ch \in 0..(server_channels - 1) :
          NetBudget /\ h_pc = "update" /\ AppServerSend(e, ch, <<ch>>)
    \/ \E ch \in 0..(client_channels - 1) :
          NetBudget /\ c_pc = "update" /\ AppClientSend(ch, <<ch>>)
    \/ PeerConnects
    \/ NetToClient
    \/ NetToHost

SpecChannels == InitChannels /\ [][ChannelsNext]_vars

\* The framing of payloads, host to client, with one channel each way: the
\* application sends every byte sequence up to MaxPayloadLen, among them the
\* empty one and those that start with the marker byte themselves.
MaxPayloadLen == 2

Bytes == {0, Marker}

ByteSeqs(n) == UNION {[1..m -> Bytes] : m \in 0..n}

InitFraming == SessionInit(1, 1)

FramingNext ==
    \/ HostTurn /\ HostTick
    \/ ClientTurn /\ ClientTick
    \/ \E e \in Entities, b \in ByteSeqs(MaxPayloadLen) :
          NetBudget /\ h_pc = "update" /\ AppServerSend(e, 0, b)
    \/ PeerConnects
    \/ NetToClient

SpecFraming == InitFraming /\ [][FramingNext]_vars

\* The control channels of both roles, fed the message each role expects
\* from the other and the datagrams that decode to no message.
Undecodable == {p \in SystemPackets : from_packet(p) = "Err"}

DecodeNext ==
    \/ HostTurn /\ HostTick
    \/ ClientTurn /\ ClientTick
    \/ HostPeerReport(ClientPeer, "Connected")
    \/ \E pkt \in Undecodable \cup {to_packet("ClientDisconnects")} :
          HostInject(ClientPeer, SYSTEM_CHANNEL_ID, pkt)
    \/ \E pkt \in Undecodable \cup {to_packet("ConnectedToHost")} :
          ClientInject(HostPeer, SYSTEM_CHANNEL_ID, pkt)

SpecDecode == Init /\ [][DecodeNext]_vars

\* The session after the tick in which the host's socket reported both peers
\* Connected: both are registered, each with its handle and its greeting.
TwoPeersRegistered ==
    /\ \E counts \in ChannelCounts :
          server_channels = counts[1] /\ client_channels = counts[2]
    /\ h_pc = HostTickStart
    /\ host_exists = TRUE
    /\ host_added = FALSE
    /\ host_removed = FALSE
    /\ host_socket = "open"
    /\ client_entities = [p \in Peers |-> IF p = "p1" THEN 1 ELSE 2]
    /\ clients_to_disconnect = <<>>
    /\ connections = [e \in {1, 2} |-> IF e = 1 THEN "p1" ELSE "p2"]
    /\ next_entity = 3
    /\ disconnect_events = <<>>
    /\ server_state = "Running"
    /\ server_sent = <<>>
    /\ server_received = <<>>
    /\ host_peer_updates = <<>>
    /\ updated_peers = <<<<"p1", "Connected">>, <<"p2", "Connected">>>>
    /\ host_in = [k \in 0..(server_channels + client_channels) |-> <<>>]
    /\ host_out = <<<<SYSTEM_CHANNEL_ID, to_packet("ConnectedToHost"), "p1">>,
                    <<SYSTEM_CHANNEL_ID, to_packet("ConnectedToHost"), "p2">>>>
    /\ c_pc = ClientTickStart
    /\ client_exists = TRUE
    /\ client_removed = FALSE
    /\ client_socket = "open"
    /\ host_peer_id = NoPeer
    /\ should_disconnect = FALSE
    /\ client_state = "Connecting"
    /\ client_sent = <<>>
    /\ client_received = <<>>
    /\ client_peer_updates = <<>>
    /\ client_in = [k \in 0..(server_channels + client_channels) |-> <<>>]
    /\ client_out = <<>>
    /\ link = "none"

InitTwoPeers == TwoPeersRegistered /\ budget = [host |-> 0, client |-> 0]

\* The host with two peers registered: the framework queues payloads for
\* them while the socket reports peers coming and going.
TwoPeersNext ==
    \/ HostTick
    \/ \E e \in Entities, ch \in 0..(server_channels - 1) :
          AppServerSend(e, ch, NetPayload)
    \/ \E p \in Peers, st \in PeerStates : HostPeerReport(p, st)

SpecTwoPeers == InitTwoPeers /\ [][TwoPeersNext]_vars

\* ================================================================ claims
HostToClientIndices == {ServerSendChannel(i) : i \in 0..(server_channels - 1)}

ClientToHostIndices ==
    {ClientSendChannel(server_channels, j) : j \in 0..(client_channels - 1)}

\* C1: for every pair of channel counts the mapping control -> 0,
\* host->client i -> 1+i, client->host j -> 1+S+j is injective onto
\* [0, 1+S+C): no two logical channels share a socket channel, no data channel
\* is channel 0, sender and receiver of a logical channel compute the same
\* socket channel, and S=2, C=3 gives {1,2} and {3,4,5}.
C1_ChannelMappingInjective ==
    /\ \A i1, i2 \in 0..(server_channels - 1) :
          ServerSendChannel(i1) = ServerSendChannel(i2) => i1 = i2
    /\ \A j1, j2 \in 0..(client_channels - 1) :
          ClientSendChannel(server_channels, j1) = ClientSendChannel(server_channels, j2)
             => j1 = j2
    /\ HostToClientIndices \cap ClientToHostIndices = {}
    /\ SYSTEM_CHANNEL_ID \notin HostToClientIndices \cup ClientToHostIndices
    /\ {SYSTEM_CHANNEL_ID} \cup HostToClientIndices \cup ClientToHostIndices
          = 0..(server_channels + client_channels)
    /\ \A i \in 0..(server_channels - 1) :
          ClientReceiveChannel(i) = ServerSendChannel(i)
    /\ \A j \in 0..(client_channels - 1) :
          ServerReceiveChannel(server_channels, j)
             = ClientSendChannel(server_channels, j)
    /\ server_channels = 2 /\ client_channels = 3
          => HostToClientIndices = {1, 2} /\ ClientToHostIndices = {3, 4, 5}

\* With 2 and 3 channels, both roles have received a payload on their last
\* logical channel.
C1_Witness ==
    /\ server_channels = 2 /\ client_channels = 3
    /\ \E k \in 1..Len(client_received) : client_received[k][1] = 1
    /\ \E k \in 1..Len(server_received) : server_received[k][2] = 2

\* ------------------------------------------------------------------ C2
\* What a step appended to a log of sent datagrams.
Appended(old, new) == SubSeq(new, Len(old) + 1, Len(new))

SendsTo(out, packet, peer) ==
    Cardinality({k \in 1..Len(out) :
                    out[k] = <<SYSTEM_CHANNEL_ID, packet, peer>>})

\* How often a batch of reports reports `peer` Connected while it is not
\* registered, the peer being registered or not before the batch.
RECURSIVE Registrations(_, _, _)
Registrations(peer, registered, updates) ==
    IF updates = <<>> THEN 0
    ELSE IF Head(updates)[1] # peer
         THEN Registrations(peer, registered, Tail(updates))
    ELSE IF Head(updates)[2] = "Disconnected"
         THEN Registrations(peer, FALSE, Tail(updates))
    ELSE (IF registered THEN 0 ELSE 1) + Registrations(peer, TRUE, Tail(updates))

StaysRegistered(peer, updates) ==
    /\ peer \in DOMAIN client_entities
    /\ \A k \in 1..Len(updates) : updates[k] # <<peer, "Disconnected">>

RECURSIVE SumOver(_, _)
SumOver(f, ks) ==
    IF ks = {} THEN 0
    ELSE LET k == CHOOSE x \in ks : TRUE IN f[k] + SumOver(f, ks \ {k})

PresenceRuns ==
    /\ h_pc = "update_client_presence" /\ h_pc' = HostNextPc(h_pc)
    /\ host_exists /\ host_socket = "open"

\* C2: a run of update_client_presence sends one ConnectedToHost, to the
\* peer, for each Connected report that registers a peer, and nothing else;
\* it allocates one handle per registration; a Connected report for a peer
\* that is still registered leaves its registry entry and handle as they
\* were and sends no message.
C2_OneConnectedToHostPerRegistration ==
    [][PresenceRuns =>
        LET sent == Appended(host_out, host_out')
            regs == [p \in Peers |->
                        Registrations(p, p \in DOMAIN client_entities,
                                      host_peer_updates)]
        IN  /\ \A k \in 1..Len(sent) :
                  /\ sent[k][1] = SYSTEM_CHANNEL_ID
                  /\ sent[k][2] = to_packet("ConnectedToHost")
            /\ \A p \in Peers :
                  SendsTo(sent, to_packet("ConnectedToHost"), p) = regs[p]
            /\ Len(sent) = SumOver(regs, Peers)
            /\ next_entity' - next_entity = SumOver(regs, Peers)
            /\ \A p \in Peers :
                  StaysRegistered(p, host_peer_updates) =>
                     /\ p \in DOMAIN client_entities'
                     /\ client_entities'[p] = client_entities[p]
                     /\ client_entities[p] \in DOMAIN connections'
                     /\ regs[p] = 0
    ]_vars

\* update_client_presence has run on a Connected report for a peer that was
\* already registered and stays so.
C2_Witness ==
    /\ h_pc = "send_packets"
    /\ \E k \in 1..Len(updated_peers) :
          /\ updated_peers[k] = <<"p1", "Connected">>
          /\ \E m \in 1..(k - 1) : updated_peers[m] = <<"p1", "Connected">>
    /\ "p1" \in DOMAIN client_entities
    /\ SendsTo(host_out, to_packet("ConnectedToHost"), "p1") = 1

\* ------------------------------------------------------------------ C3
\* A run of the client's control drain that reads its socket.
ClientSystemRuns ==
    /\ c_pc = "receive_system" /\ c_pc' = ClientNextPc(c_pc)
    /\ client_exists /\ ~all_channels_closed(client_socket)

\* Does the control inbox hold a ConnectedToHost (of a peer in `from`)?
InboxGreeting(from) ==
    \E k \in 1..Len(client_in[SYSTEM_CHANNEL_ID]) :
        /\ from_packet(client_in[SYSTEM_CHANNEL_ID][k][2]) = "ConnectedToHost"
        /\ client_in[SYSTEM_CHANNEL_ID][k][1] \in from

\* C3: once a client has recorded a host peer id, a control drain that reads
\* further ConnectedToHost messages, from the same or from another peer,
\* leaves the client state and the recorded host peer id as they were.
C3_LaterConnectedToHostChangesNothing ==
    [][(ClientSystemRuns /\ host_peer_id # NoPeer
            /\ InboxGreeting({HostPeer, OtherPeer}))
        => (host_peer_id' = host_peer_id /\ client_state' = client_state)]_vars

\* ------------------------------------------------------------------ C4
\* C4: the client state becomes Connected, and is_connected() becomes true,
\* only in a run of the control drain whose inbox holds a ConnectedToHost;
\* a client with a host peer id is Connected, and a client that is Connected
\* has a host peer id or has had one.
C4_ConnectedOnlyByConnectedToHost ==
    [][/\ ((client_state' = "Connected" /\ client_state # "Connected")
              \/ (host_peer_id' # NoPeer /\ host_peer_id = NoPeer))
           => (ClientSystemRuns /\ InboxGreeting({HostPeer, OtherPeer}))
       /\ (host_peer_id' # NoPeer) => (client_state' = "Connected")
      ]_vars

\* The client is Connected with the host's peer id, and its control inbox has
\* been read.
C4_Witness ==
    /\ client_state = "Connected"
    /\ is_connected
    /\ host_peer_id = HostPeer
    /\ c_pc = "update_peers"
    /\ client_in[SYSTEM_CHANNEL_ID] = <<>>

\* ------------------------------------------------------------------ C5
BroughtUp ==
    /\ ClientPeer \in DOMAIN client_entities
    /\ host_peer_id = HostPeer
    /\ client_state = "Connected"
    /\ server_state = "Running"

\* C5: once the socket has reported the client's peer Connected to the host,
\* and with both sides ticking and the control channel delivering, the host
\* registry eventually contains the peer, the client has recorded the host
\* peer id and is Connected, and the host is Running, and it stays so.
C5_BringUpTerminates == (link = "up") ~> []BroughtUp

\* The session is up and the tick of each side is over.
C5_Witness ==
    /\ BroughtUp
    /\ link = "up"
    /\ h_pc = HostTickStart /\ c_pc = ClientTickStart

\* ------------------------------------------------------------------ C6
\* The state of the last report about `peer` in a batch, "none" without one.
LastReport(peer, updates) ==
    LET ks == {k \in 1..Len(updates) : updates[k][1] = peer}
    IN  IF ks = {} THEN "none"
        ELSE updates[CHOOSE k \in ks : \A m \in ks : m <= k][2]

\* C6: the PostUpdate that follows the removal of the client's resource sets
\* the client state Disconnected, and it stays so while there is no
\* resource; the host tick that reads the socket's report of the departure
\* takes the peer out of the registry, one client fewer, and despawns its
\* handle, so that once the report is read no entry and no handle of the
\* peer is left.
C6_ClientLeavesByRemoval ==
    [][/\ (c_pc = "set_disconnected" /\ c_pc' = ClientNextPc(c_pc)
              /\ ~client_exists /\ client_removed)
           => client_state' = "Disconnected"
       /\ (~client_exists' /\ ~client_removed') => client_state' = "Disconnected"
       /\ (PresenceRuns /\ ClientPeer \in DOMAIN client_entities
              /\ LastReport(ClientPeer, host_peer_updates) = "Disconnected")
           => /\ ClientPeer \notin DOMAIN client_entities'
              /\ Cardinality(DOMAIN client_entities')
                    = Cardinality(DOMAIN client_entities) - 1
              /\ client_entities[ClientPeer] \notin DOMAIN connections'
       /\ (link' = "down" /\ host_exists' /\ host_socket' = "open"
              /\ host_peer_updates' = <<>>)
           => /\ ClientPeer \notin DOMAIN client_entities'
              /\ \A e \in DOMAIN connections' : connections'[e] # ClientPeer
      ]_vars

\* A client that was connected (the host has a payload of it) has had its
\* resource removed and is Disconnected; the host has read the report of the
\* departure and has no client left.
C6_Witness ==
    /\ ~client_exists /\ ~client_removed
    /\ client_state = "Disconnected"
    /\ server_received # <<>>
    /\ link = "down"
    /\ h_pc = HostTickStart
    /\ host_exists
    /\ LastReport(ClientPeer, updated_peers) = "Disconnected"
    /\ DOMAIN client_entities = {}
    /\ connections = Empty

\* ------------------------------------------------------------------ C7
\* The last system of a host tick runs.
HostTickEnds ==
    /\ h_pc = "send_packets" /\ h_pc' = HostTickStart
    /\ host_exists

\* C7: when a host tick ends, every connection that a disconnect request
\* written since the tick began names is out of the registry and its handle
\* is despawned.  (The requests written before the tick began were read by
\* this tick's received_disconnect; the ones still unread when the tick ends
\* were written in its Update.)
C7_DisconnectRequestServedInItsTick ==
    [][HostTickEnds =>
        \A k \in 1..Len(disconnect_events) :
            disconnect_events[k] \in DOMAIN connections
               => /\ disconnect_events[k] \notin DOMAIN connections'
                  /\ connections[disconnect_events[k]] \notin DOMAIN client_entities'
    ]_vars

\* ------------------------------------------------------------------ C8
\* The data datagrams of a log that are addressed to `peer`.
DataTo(peer, out) ==
    LET IsDataTo(d) == d[3] = peer /\ d[1] # SYSTEM_CHANNEL_ID
    IN  SelectSeq(out, IsDataTo)

\* The queued payloads whose connection handle is the one of `peer`.
QueuedFor(peer) ==
    LET IsFor(m) == m[1] \in DOMAIN connections /\ connections[m[1]] = peer
    IN  SelectSeq(server_sent, IsFor)

\* How many datagrams wait in the data channels the client reads.
RECURSIVE ClientDataWaiting(_, _)
ClientDataWaiting(inbox, channel_id) ==
    IF channel_id >= server_channels THEN 0
    ELSE Len(inbox[ClientReceiveChannel(channel_id)])
            + ClientDataWaiting(inbox, channel_id + 1)

\* C8: a run of the host's send_packets that sends HostRequestsDisconnect to
\* a peer has sent, before it and in their order, every payload queued for
\* that peer, and sends the peer no payload after it.  A run of the client's
\* receive_packets puts every waiting payload in the inbound queue, and when
\* the client, still holding its resource, becomes Disconnected no payload
\* that had arrived at its socket is left undelivered.
C8_LastMessagesBeforeDisconnect ==
    [][/\ (h_pc = "send_packets" /\ h_pc' = HostNextPc(h_pc) /\ host_exists)
           => LET sent == Appended(host_out, host_out')
              IN  \A p \in Peers : \A k \in 1..Len(sent) :
                     sent[k] = <<SYSTEM_CHANNEL_ID,
                                 to_packet("HostRequestsDisconnect"), p>>
                        => /\ Len(DataTo(p, sent)) = Len(QueuedFor(p))
                           /\ \A i \in 1..Len(QueuedFor(p)) :
                                 DataTo(p, sent)[i] =
                                    <<ServerSendChannel(QueuedFor(p)[i][2]),
                                      add_marker(QueuedFor(p)[i][3]), p>>
                           /\ DataTo(p, SubSeq(sent, 1, k - 1)) = DataTo(p, sent)
       /\ (c_pc = "receive_packets" /\ c_pc' = ClientNextPc(c_pc)
              /\ client_exists /\ ~all_channels_closed(client_socket))
           => /\ Len(client_received')
                    = Len(client_received) + ClientDataWaiting(client_in, 0)
              /\ ClientDataWaiting(client_in', 0) = 0
       /\ (client_state' = "Disconnected" /\ client_state # "Disconnected"
              /\ client_exists')
           => ClientDataWaiting(client_in', 0) = 0
      ]_vars

\* The host has disconnected the client, and the client, Disconnected at the
\* host's request, has the payload the host sent it last.
C8_Witness ==
    /\ client_state = "Disconnected" /\ client_exists
    /\ client_received = <<<<0, <<65, 66>>>>>>
    /\ budget = [host |-> 2, client |-> 0]
    /\ host_exists /\ ClientPeer \notin DOMAIN client_entities
    /\ link = "up"
    /\ host_out = <<>>

\* ------------------------------------------------------------------ C9
IsPrefix(s, t) == Len(s) <= Len(t) /\ SubSeq(t, 1, Len(s)) = s

\* A run of the client's send_packets that gets past its early returns.
ClientSendRuns ==
    /\ c_pc = "send_packets" /\ c_pc' = ClientNextPc(c_pc)
    /\ client_exists /\ host_peer_id # NoPeer
    /\ ~any_channel_closed(client_socket)

\* C9: a step of a client that has no host peer id sends nothing on any
\* socket channel and takes nothing out of the framework's outbound queue;
\* no step but a run of send_packets with a host peer id takes a message out
\* of the queue, and that run sends each queued message once, in order, to
\* the recorded host on the message's socket channel, and empties the queue.
C9_NothingSentWithoutHost ==
    [][/\ host_peer_id = NoPeer
           => (client_out' = client_out /\ IsPrefix(client_sent, client_sent'))
       /\ ~ClientSendRuns => IsPrefix(client_sent, client_sent')
       /\ ClientSendRuns
           => /\ IsPrefix(client_out, client_out')
              /\ Appended(client_out, client_out') =
                    [i \in 1..Len(client_sent) |->
                        <<ClientSendChannel(server_channels, client_sent[i][1]),
                          add_marker(client_sent[i][2]), host_peer_id>>]
              /\ client_sent' = <<>>
      ]_vars

\* The client, now connected, has transmitted its one queued payload, once.
C9_Witness ==
    /\ c_pc = ClientTickStart
    /\ host_peer_id = HostPeer
    /\ client_sent = <<>>
    /\ client_out = <<<<ClientSendChannel(server_channels, 0),
                        add_marker(<<65, 66>>), HostPeer>>>>
    /\ budget.client = 2

\* ----------------------------------------------------------------- C10
\* A run of update_client_presence in which try_update_peers fails.
FatalRuns ==
    /\ h_pc = "update_client_presence" /\ h_pc' = HostNextPc(h_pc)
    /\ host_exists /\ host_socket = "closed"

\* C10: the run of update_client_presence in which the peer enumeration
\* fails despawns the handle of every registered peer, whatever their
\* number, and removes the host resource, so that no handle is left; the
\* run of set_stopped that sees the removal sets the host
\* state Stopped, and without a resource it stays Stopped.
C10_FatalFailureStopsHost ==
    [][/\ FatalRuns
           => /\ \A p \in DOMAIN client_entities :
                    client_entities[p] \notin DOMAIN connections'
              /\ connections' = Empty
              /\ ~host_exists' /\ host_removed'
              /\ client_entities' = Empty
       /\ (h_pc = "set_stopped" /\ h_pc' = HostNextPc(h_pc) /\ host_removed)
           => server_state' = "Stopped"
       /\ (~host_exists' /\ ~host_removed') => server_state' = "Stopped"
      ]_vars

\* The socket of a Running host failed with two peers registered (two
\* events, two handles allocated): no handle and no resource is left, and
\* the host is Stopped.
C10_Witness ==
    /\ budget.host = 2 /\ next_entity = 3
    /\ host_socket = "closed"
    /\ ~host_exists /\ ~host_removed
    /\ connections = Empty
    /\ server_state = "Stopped"

\* ----------------------------------------------------------------- C11
\* The last system of a client tick runs.
ClientTickEnds == c_pc = "send_packets" /\ c_pc' = ClientTickStart

\* C11: when a tick of a client that holds its resource ends with the
\* disconnect flag set (HostRequestsDisconnect was read, in whatever state),
\* the client has closed its socket, cleared the host peer id, cleared the
\* flag and set its state Disconnected.
C11_HostRequestDisconnectsInItsTick ==
    [][(ClientTickEnds /\ client_exists /\ should_disconnect)
        => /\ all_channels_closed(client_socket')
           /\ host_peer_id' = NoPeer
           /\ ~should_disconnect'
           /\ client_state' = "Disconnected"
    ]_vars

\* ----------------------------------------------------------- C12, C13
\* A run of update_peers whose try_update_peers succeeds, the host known.
UpdatePeersRuns ==
    /\ c_pc = "update_peers" /\ c_pc' = ClientNextPc(c_pc)
    /\ client_exists /\ ~all_channels_closed(client_socket)
    /\ host_peer_id # NoPeer

\* Does the batch report `peer` Disconnected?
ReportsGone(peer) ==
    \E k \in 1..Len(client_peer_updates) :
        client_peer_updates[k] = <<peer, "Disconnected">>

\* C12: a run of update_peers of a client that knows its host, on a batch
\* that does not report the host Disconnected (whatever it reports of other
\* peers), leaves the resource in place and the host peer id and the client
\* state as they were.
C12_OtherPeerGoneIsIgnored ==
    [][(UpdatePeersRuns /\ ~ReportsGone(host_peer_id))
        => /\ client_exists'
           /\ host_peer_id' = host_peer_id
           /\ client_state' = client_state
    ]_vars

\* C13: a run of update_peers of a client that knows its host, on a batch
\* that reports the host Disconnected, removes the client's resource, and
\* the set_disconnected of that tick sets the state Disconnected.
C13_HostGoneRemovesResource ==
    [][/\ (UpdatePeersRuns /\ ReportsGone(host_peer_id))
           => (~client_exists' /\ client_removed')
       /\ (c_pc = "set_disconnected" /\ c_pc' = ClientNextPc(c_pc)
              /\ client_removed)
           => client_state' = "Disconnected"
      ]_vars

\* ----------------------------------------------------------------- C14
\* C14: a client that is Disconnected has no host peer id, and no step takes
\* it out of Disconnected or gives it a host peer id, whatever is in the
\* buffers of its socket.
C14_DisconnectedIsTerminal ==
    [][client_state = "Disconnected"
        => /\ client_state' = "Disconnected"
           /\ host_peer_id = NoPeer /\ host_peer_id' = NoPeer
    ]_vars

\* A client that was disconnected at the host's request runs its control
\* drain with a ConnectedToHost in the buffer of its closed socket.
C14_Witness ==
    /\ client_state = "Disconnected"
    /\ client_exists /\ all_channels_closed(client_socket)
    /\ c_pc = "update_peers"
    /\ InboxGreeting({HostPeer, OtherPeer})

\* ----------------------------------------------------------------- C15
\* The peers that have a connection handle.
HandlePeers == {connections[e] : e \in DOMAIN connections}

\* C15: while the host resource exists, between any two systems and so at
\* every tick boundary, the peers with a connection handle are the peers of
\* the registry, each with the one handle the registry records for it; and
\* the fatal failure, which takes the registry away, leaves no handle.
C15_HandleIffRegistered ==
    [][/\ host_exists'
           => /\ {connections'[e] : e \in DOMAIN connections'}
                    = DOMAIN client_entities'
              /\ Cardinality(DOMAIN connections')
                    = Cardinality(DOMAIN client_entities')
              /\ \A p \in DOMAIN client_entities' :
                    /\ client_entities'[p] \in DOMAIN connections'
                    /\ connections'[client_entities'[p]] = p
       /\ FatalRuns => connections' = Empty
      ]_vars

\* At a tick boundary of a running host, two peers have been registered and
\* one of them has been removed: one registry entry, one handle.
C15_Witness ==
    /\ h_pc = HostTickStart /\ host_exists
    /\ next_entity = 3
    /\ Cardinality(DOMAIN client_entities) = 1
    /\ HandlePeers = DOMAIN client_entities

\* ----------------------------------------------------------------- C16
\* C16: when a host tick ends, the host state is Running if the host
\* resource exists and Stopped if it has been removed, by the application or
\* by the fatal failure of the socket, in that tick or before it.
C16_StateFollowsResource ==
    [][(h_pc = "send_packets" /\ h_pc' = HostTickStart)
        => /\ host_exists' => server_state' = "Running"
           /\ ~host_exists' => server_state' = "Stopped"
    ]_vars

\* ----------------------------------------------------------------- C17
\* Without the host resource no step adds a datagram to what the host has
\* sent, whatever is queued, and the registry is empty.
HostGoneSendsNothing ==
    ~host_exists => (Len(host_out') <= Len(host_out) /\ client_entities' = Empty)

\* A host tick that ends without the resource ends Stopped.
HostGoneIsStopped ==
    (h_pc = "send_packets" /\ h_pc' = HostTickStart /\ ~host_exists')
        => server_state' = "Stopped"

\* The client has finished the tick that read the report of the host's
\* departure: the host is gone, the connection is down, the report is read.
HostDepartureRead ==
    /\ ~host_exists'
    /\ link' = "down"
    /\ client_peer_updates' = <<>>
    /\ c_pc' = ClientTickStart /\ ~client_removed'

\* C17: once the host resource is removed the host sends nothing any more,
\* it has no connected client and its tick ends Stopped; and a client that
\* was connected is Disconnected once it has finished the tick that read
\* the report of the host's departure.
C17_NothingAfterHostRemoval ==
    [][/\ HostGoneSendsNothing
       /\ HostGoneIsStopped
       /\ (HostDepartureRead /\ client_state' # "Connecting")
           => client_state' = "Disconnected"
      ]_vars

\* ----------------------------------------------------------------- C18
\* How many datagrams wait in the data channels of a socket's inbox.
DataWaiting(inbox) ==
    SumOver([k \in DOMAIN inbox |-> Len(inbox[k])], DOMAIN inbox \ {SYSTEM_CHANNEL_ID})

\* The host's receive_packets has run in this tick.
HostHasReceived == h_pc \notin {"set_running", "receive_system", "receive_packets"}

\* The client's receive_packets has run in this tick.
ClientHasReceived == c_pc # ClientTickStart

\* C18: over a delivering network, a payload sent on logical channel i is
\* put in the other role's inbound queue under channel id i, with the bytes
\* it was sent with, exactly once, in both directions; the host tags it with
\* the connection handle of the sending peer.  Every payload here carries the
\* number of the channel it was sent on; a payload sent is in exactly one of
\* the outbound queue, the network, the receiver's socket and the inbound
\* queue, and the receiver's socket holds none once receive_packets has run.
C18_PayloadArrivesOnItsChannel ==
    /\ \A k \in 1..Len(client_received) :
          /\ client_received[k][1] \in 0..(server_channels - 1)
          /\ client_received[k][2] = <<client_received[k][1]>>
    /\ \A k \in 1..Len(server_received) :
          /\ server_received[k][2] \in 0..(client_channels - 1)
          /\ server_received[k][3] = <<server_received[k][2]>>
          /\ ClientPeer \in DOMAIN client_entities
          /\ server_received[k][1] = client_entities[ClientPeer]
    /\ Len(server_sent) + Len(DataTo(ClientPeer, host_out))
          + DataWaiting(client_in) + Len(client_received) = budget.host
    /\ Len(client_sent) + Len(DataTo(HostPeer, client_out))
          + DataWaiting(host_in) + Len(server_received) = budget.client
    /\ ClientHasReceived =>
          \A i \in 0..(server_channels - 1) : client_in[ServerSendChannel(i)] = <<>>
    /\ HostHasReceived =>
          \A j \in 0..(client_channels - 1) :
             host_in[ClientSendChannel(server_channels, j)] = <<>>

\* With 2 and 3 channels, the client holds the payload the host sent on its
\* last logical channel and the host the one the client sent on its last,
\* tagged with the handle of the client's peer.
C18_Witness ==
    /\ server_channels = 2 /\ client_channels = 3
    /\ client_received = <<<<1, <<1>>>>>>
    /\ ClientPeer \in DOMAIN client_entities
    /\ server_received = <<<<client_entities[ClientPeer], 2, <<2>>>>>>
    /\ budget.host = 1 /\ budget.client = 1

\* ----------------------------------------------------------------- C19
\* The client's receive_packets reads the host's data channel.
ClientReceiveRuns ==
    /\ c_pc = "receive_packets" /\ c_pc' = ClientNextPc(c_pc)
    /\ client_exists /\ ~all_channels_closed(client_socket)

\* C19: strip_marker(add_marker(b)) = b for every payload b the application
\* queues, the empty one included; add_marker(b) is never empty and is one
\* byte longer than b.  What the host's send_packets puts on the network is
\* the framing of what was queued, and what the client's receive_packets puts
\* in the inbound queue, framed again, is the datagram it read.
C19_FramingRoundTrips ==
    [][/\ \A k \in 1..Len(server_sent) :
             LET b == server_sent[k][3]
             IN  /\ strip_marker(add_marker(b)) = b
                 /\ add_marker(b) # <<>>
                 /\ Len(add_marker(b)) = Len(b) + 1
       /\ \A k \in 1..Len(host_out') :
             host_out'[k][1] # SYSTEM_CHANNEL_ID =>
                /\ host_out'[k][2] # <<>>
                /\ host_out'[k][2][1] = Marker
       /\ ClientReceiveRuns =>
             LET got == Appended(client_received, client_received')
                 read == client_in[ServerSendChannel(0)]
             IN  /\ Len(got) = Len(read)
                 /\ \A k \in 1..Len(got) :
                       /\ add_marker(got[k][2]) = read[k][2]
                       /\ Len(got[k][2]) = Len(read[k][2]) - 1
      ]_vars

\* The client has received the empty payload and one that starts with the
\* marker byte, as they were sent.
C19_Witness ==
    /\ client_received = <<<<0, <<>>>>, <<0, <<Marker, 0>>>>>>
    /\ server_sent = <<>> /\ host_out = <<>>
    /\ budget.host = 2

\* ----------------------------------------------------------------- C20
\* A run of the host's receive_system_channel_packets on a working socket.
ServerSystemRuns ==
    /\ h_pc = "receive_system" /\ h_pc' = HostNextPc(h_pc)
    /\ host_exists /\ host_socket = "open"

\* The control channel holds a ClientDisconnects of `peer`.
SaysGoodbye(peer) ==
    \E k \in 1..Len(host_in[SYSTEM_CHANNEL_ID]) :
       host_in[SYSTEM_CHANNEL_ID][k] = <<peer, to_packet("ClientDisconnects")>>

\* C20: a run of the host's receive_system_channel_packets that drains a
\* ClientDisconnects of a registered peer removes the peer's registry entry
\* and its connection handle in that step, whether or not the socket has
\* reported the peer Disconnected, and sends nothing; a registered peer that
\* sent no ClientDisconnects keeps its entry and its handle.
C20_ClientDisconnectsRemovesHandle ==
    [][ServerSystemRuns =>
        /\ host_out' = host_out
        /\ host_in'[SYSTEM_CHANNEL_ID] = <<>>
        /\ \A p \in DOMAIN client_entities :
              IF SaysGoodbye(p)
              THEN /\ p \notin DOMAIN client_entities'
                   /\ client_entities[p] \notin DOMAIN connections'
              ELSE /\ p \in DOMAIN client_entities'
                   /\ client_entities'[p] = client_entities[p]
                   /\ client_entities[p] \in DOMAIN connections
                         => client_entities[p] \in DOMAIN connections'
      ]_vars

\* The host is about to drain a ClientDisconnects of a registered peer that
\* the socket has not reported Disconnected, while another peer is registered.
C20_Witness ==
    /\ h_pc = "receive_system" /\ host_exists /\ host_socket = "open"
    /\ DOMAIN client_entities = Peers
    /\ SaysGoodbye("p1") /\ ~SaysGoodbye("p2")
    /\ StaysRegistered("p1", host_peer_updates)
    /\ client_entities["p1"] \in DOMAIN connections

\* ----------------------------------------------------------------- C21
\* The datagram disconnect() sends to the recorded host.
Goodbye == <<SYSTEM_CHANNEL_ID, to_packet("ClientDisconnects"), host_peer_id>>

\* C21: the application's steps send nothing but the ClientDisconnects of
\* disconnect(): one, on the control channel, to the recorded host, by a
\* connected client, and whenever such a step sets the disconnect flag it
\* has sent that one message.  The run of send_packets that ends the tick of
\* a client with a host peer id, a working socket and the flag set sends
\* every queued payload, closes the socket, clears the host peer id and the
\* flag and sets the state Disconnected.
C21_VoluntaryLeave ==
    [][/\ (c_pc' = c_pc /\ client_out' # client_out /\ Len(client_out') > Len(client_out))
           => /\ client_exists /\ is_connected
              /\ client_out' = Append(client_out, Goodbye)
              /\ should_disconnect'
       /\ (c_pc' = c_pc /\ ~should_disconnect /\ should_disconnect')
           => client_out' = Append(client_out, Goodbye)
       /\ (ClientSendRuns /\ should_disconnect)
           => /\ Appended(client_out, client_out') =
                    [i \in 1..Len(client_sent) |->
                        <<ClientSendChannel(server_channels, client_sent[i][1]),
                          add_marker(client_sent[i][2]), host_peer_id>>]
              /\ client_sent' = <<>>
              /\ all_channels_closed(client_socket')
              /\ host_peer_id' = NoPeer
              /\ ~should_disconnect'
              /\ client_state' = "Disconnected"
              /\ c_pc' = ClientTickStart
      ]_vars

\* A connected client called disconnect() with a payload queued: its tick has
\* ended with the ClientDisconnects and the payload sent to the host, the
\* socket closed and the state Disconnected.
C21_Witness ==
    /\ c_pc = ClientTickStart /\ client_exists
    /\ client_out = <<<<SYSTEM_CHANNEL_ID, to_packet("ClientDisconnects"), HostPeer>>,
                      <<ClientSendChannel(server_channels, 0),
                        add_marker(<<65, 66>>), HostPeer>>>>
    /\ client_sent = <<>>
    /\ all_channels_closed(client_socket)
    /\ host_peer_id = NoPeer /\ ~should_disconnect
    /\ client_state = "Disconnected"

\* ----------------------------------------------------------------- C22
\* A run of the host's send_packets.
ServerSendRuns ==
    /\ h_pc = "send_packets" /\ h_pc' = HostNextPc(h_pc)
    /\ host_exists

\* `peer` has a pending disconnection.
Pending(peer) ==
    \E k \in 1..Len(clients_to_disconnect) : clients_to_disconnect[k] = peer

\* The HostRequestsDisconnect datagrams of a log that are addressed to `peer`.
RequestsTo(peer, out) ==
    LET IsRequestTo(d) ==
           d = <<SYSTEM_CHANNEL_ID, to_packet("HostRequestsDisconnect"), peer>>
    IN  SelectSeq(out, IsRequestTo)

Saying(packets, ms) ==
    LET Says(d) == from_packet(d[2]) \in ms
    IN  SelectSeq(packets, Says)

\* The control messages that are meant for a client.
ClientBound == {"ConnectedToHost", "HostRequestsDisconnect"}

\* C23: a run of the host's receive_system_channel_packets that drains
\* ConnectedToHost or HostRequestsDisconnect messages discards them: if it
\* drains nothing else, the registry, the connection handles, the pending
\* disconnections and the host state are as before and nothing is sent; and
\* in any drain, the registry afterwards is the one the drain leaves without
\* them.
C23_ClientBoundMessageDiscarded ==
    [][ServerSystemRuns =>
        LET inbox == host_in[SYSTEM_CHANNEL_ID]
            rest == Saying(inbox, {"ClientDisconnects", "Err"})
        IN  /\ (Saying(inbox, ClientBound) = inbox)
               => /\ client_entities' = client_entities
                  /\ connections' = connections
            /\ client_entities' =
                  ServerSystemLoop([ce |-> client_entities, despawn |-> {}], rest).ce
            /\ clients_to_disconnect' = clients_to_disconnect
            /\ server_state' = server_state
            /\ host_out' = host_out
            /\ host_in'[SYSTEM_CHANNEL_ID] = <<>>
      ]_vars

\* The host is about to drain a ConnectedToHost and a HostRequestsDisconnect
\* sent by a registered peer.
C23_Witness ==
    /\ h_pc = "receive_system" /\ host_exists /\ host_socket = "open"
    /\ "p1" \in DOMAIN client_entities
    /\ client_entities["p1"] \in DOMAIN connections
    /\ host_in[SYSTEM_CHANNEL_ID] = <<<<"p1", to_packet("ConnectedToHost")>>,
                                      <<"p1", to_packet("HostRequestsDisconnect")>>>>

\* ----------------------------------------------------------------- C24
\* C24: a run of the client's receive_system_channel_packets that drains a
\* ClientDisconnects discards it: if it drains nothing else, the host peer
\* id, the disconnect flag, the socket and the client state are as before;
\* and in any drain, the three are what the drain leaves without it; the
\* drain never touches the socket or the resource.
C24_ClientDisconnectsDiscardedByClient ==
    [][ClientSystemRuns =>
        LET inbox == client_in[SYSTEM_CHANNEL_ID]
            rest == Saying(inbox, ClientBound \cup {"Err"})
            acc == ClientSystemLoop([host_peer_id |-> host_peer_id,
                                     should_disconnect |-> should_disconnect,
                                     state |-> client_state], rest)
        IN  /\ (Saying(inbox, {"ClientDisconnects"}) = inbox)
               => /\ host_peer_id' = host_peer_id
                  /\ should_disconnect' = should_disconnect
                  /\ client_state' = client_state
            /\ host_peer_id' = acc.host_peer_id
            /\ should_disconnect' = acc.should_disconnect
            /\ client_state' = acc.state
            /\ client_socket' = client_socket
            /\ client_exists' /\ ~client_removed'
            /\ client_out' = client_out
      ]_vars

\* A connected client is about to drain a ClientDisconnects sent by its host.
C24_Witness ==
    /\ c_pc = "receive_system" /\ client_exists /\ client_socket = "open"
    /\ host_peer_id = HostPeer /\ client_state = "Connected" /\ ~should_disconnect
    /\ client_in[SYSTEM_CHANNEL_ID] = <<<<HostPeer, to_packet("ClientDisconnects")>>>>

\* ----------------------------------------------------------------- C25
\* C25: a control datagram that decodes to none of the three messages is
\* dropped by either role.  A run of the host's drain leaves registry and
\* handles as the drain of the decodable datagrams alone would, and as they
\* were if no datagram decodes; a run of the client's drain does the same with
\* host peer id, disconnect flag and client state.  Neither run removes the
\* role's resource, closes its socket, changes the host state or sends
\* anything.
C25_UndecodableDropped ==
    [][/\ ServerSystemRuns =>
            LET inbox == host_in[SYSTEM_CHANNEL_ID]
                acc == ServerSystemLoop([ce |-> client_entities, despawn |-> {}],
                                        Saying(inbox, Messages))
            IN  /\ client_entities' = acc.ce
                /\ DOMAIN connections' = DOMAIN connections \ acc.despawn
                /\ (Saying(inbox, {"Err"}) = inbox)
                   => (client_entities' = client_entities /\ connections' = connections)
                /\ host_exists' /\ host_socket' = host_socket
                /\ server_state' = server_state
                /\ host_out' = host_out
       /\ ClientSystemRuns =>
            LET inbox == client_in[SYSTEM_CHANNEL_ID]
                acc == ClientSystemLoop([host_peer_id |-> host_peer_id,
                                         should_disconnect |-> should_disconnect,
                                         state |-> client_state],
                                        Saying(inbox, Messages))
            IN  /\ host_peer_id' = acc.host_peer_id
                /\ should_disconnect' = acc.should_disconnect
                /\ client_state' = acc.state
                /\ (Saying(inbox, {"Err"}) = inbox)
                   => /\ host_peer_id' = host_peer_id
                      /\ should_disconnect' = should_disconnect
                      /\ client_state' = client_state
                /\ client_exists' /\ client_socket' = client_socket
                /\ client_out' = client_out
      ]_vars

\* The host is about to drain a datagram that does not decode followed by the
\* ClientDisconnects of a registered peer, and the client's socket holds one
\* followed by the host's ConnectedToHost.
C25_Witness ==
    /\ h_pc = "receive_system" /\ host_exists /\ host_socket = "open"
    /\ ClientPeer \in DOMAIN client_entities
    /\ host_in[SYSTEM_CHANNEL_ID] = <<<<ClientPeer, <<9>>>>,
                                      <<ClientPeer, to_packet("ClientDisconnects")>>>>
    /\ client_exists /\ client_socket = "open" /\ host_peer_id = NoPeer
    /\ client_in[SYSTEM_CHANNEL_ID] = <<<<HostPeer, <<>>>>,
                                        <<HostPeer, to_packet("ConnectedToHost")>>>>

\* ----------------------------------------------------------------- C26
\* The registry and the connection handles are left as they were.
RegistryUntouched ==
    /\ client_entities' = client_entities
    /\ connections' = connections

\* C26: what refers to a peer the host does not register has no effect.  A
\* run of update_client_presence whose reports are all Disconnected reports
\* of unregistered peers, a run of receive_system_channel_packets whose
\* ClientDisconnects all come from unregistered peers, and a run of
\* send_packets whose pending disconnections all name unregistered peers
\* leave the registry and the handles as they were and send no control
\* message; a peer that is not registered is never sent a
\* HostRequestsDisconnect.
C26_StaleReferencesAreNoOps ==
    [][/\ (PresenceRuns
             /\ \A k \in 1..Len(host_peer_updates) :
                   /\ host_peer_updates[k][2] = "Disconnected"
                   /\ host_peer_updates[k][1] \notin DOMAIN client_entities)
           => /\ RegistryUntouched
              /\ host_out' = host_out
              /\ next_entity' = next_entity
       /\ (ServerSystemRuns /\ \A p \in DOMAIN client_entities : ~SaysGoodbye(p))
           => /\ RegistryUntouched
              /\ host_out' = host_out
       /\ (ServerSendRuns /\ \A p \in DOMAIN client_entities : ~Pending(p))
           => /\ RegistryUntouched
              /\ \A k \in 1..Len(Appended(host_out, host_out')) :
                    Appended(host_out, host_out')[k][1] # SYSTEM_CHANNEL_ID
       /\ ServerSendRuns
           => \A p \in Peers \ DOMAIN client_entities :
                 RequestsTo(p, Appended(host_out, host_out')) = <<>>
      ]_vars

\* The host is about to serve a disconnection pending for a peer that a
\* Disconnected report has taken out of the registry in the same tick.
C26_Witness ==
    /\ h_pc = "send_packets" /\ host_exists
    /\ clients_to_disconnect = <<"p1">>
    /\ "p1" \notin DOMAIN client_entities
    /\ updated_peers = <<<<"p1", "Disconnected">>>>
    /\ next_entity = 2

\* The host is about to read the Disconnected report of a peer it does not
\* register.
C26_StaleReport ==
    /\ h_pc = "update_client_presence" /\ host_exists /\ host_socket = "open"
    /\ host_peer_updates = <<<<"p1", "Disconnected">>>>
    /\ DOMAIN client_entities = {"p2"}

\* The host is about to drain the ClientDisconnects of a peer it does not
\* register.
C26_StaleGoodbye ==
    /\ h_pc = "receive_system" /\ host_exists /\ host_socket = "open"
    /\ SaysGoodbye("p1")
    /\ DOMAIN client_entities = {"p2"}

\* ----------------------------------------------------------------- C27
\* A run of the host's receive_packets.
ServerReceiveRuns ==
    /\ h_pc = "receive_packets" /\ h_pc' = HostNextPc(h_pc)
    /\ host_exists

\* The datagrams waiting on client->host channel j whose sender is registered.
FromRegistered(j) ==
    LET Known(d) == d[1] \in DOMAIN client_entities
    IN  SelectSeq(host_in[ClientSendChannel(server_channels, j)], Known)

\* C27: a run of the host's receive_packets appends to the inbound queue, for
\* each client->host channel j, one entry per waiting datagram whose sender
\* is in the registry at that step, in their order: the sender's connection
\* handle, j, and the payload whose framing the datagram is.  A datagram of a
\* peer that is not in the registry adds no entry; the registry, the handles
\* and the datagrams sent are as before, and the data channels are empty
\* afterwards.
C27_OnlyRegisteredSendersDelivered ==
    [][ServerReceiveRuns =>
        LET got == Appended(server_received, server_received')
        IN  /\ IsPrefix(server_received, server_received')
            /\ \A k \in 1..Len(got) : got[k][2] \in 0..(client_channels - 1)
            /\ \A j \in 0..(client_channels - 1) :
                  LET OnJ(r) == r[2] = j
                      gotj == SelectSeq(got, OnJ)
                      known == FromRegistered(j)
                  IN  /\ Len(gotj) = Len(known)
                      /\ \A i \in 1..Len(gotj) :
                            /\ gotj[i][1] = client_entities[known[i][1]]
                            /\ add_marker(gotj[i][3]) = known[i][2]
                      /\ host_in'[ClientSendChannel(server_channels, j)] = <<>>
            /\ RegistryUntouched
            /\ host_out' = host_out
            /\ clients_to_disconnect' = clients_to_disconnect
            /\ server_state' = server_state
      ]_vars

\* The host is about to read a data channel that holds a datagram of a
\* registered peer and one of a peer that is not registered.
C27_Witness ==
    /\ h_pc = "receive_packets" /\ host_exists
    /\ DOMAIN client_entities = {"p1"}
    /\ host_in[ClientSendChannel(server_channels, 0)] =
          <<<<"p2", add_marker(<<65, 66>>)>>, <<"p1", add_marker(<<>>)>>>>

\* ----------------------------------------------------------------- C28
\* The queued payloads whose handle resolves to a registered peer.
Resolving ==
    LET Resolves(m) == /\ m[1] \in DOMAIN connections
                       /\ connections[m[1]] \in DOMAIN client_entities
    IN  SelectSeq(server_sent, Resolves)

\* The data datagrams of a log.
DataOf(out) ==
    LET IsData(d) == d[1] # SYSTEM_CHANNEL_ID
    IN  SelectSeq(out, IsData)

\* C28: a run of the host's send_packets sends one data datagram for each
\* queued payload whose connection handle resolves to a peer in the registry,
\* in their order, to that peer, and none for any other payload; every data
\* datagram it sends is addressed to a peer in the registry, and the
\* outbound queue is empty afterwards.
C28_NoPayloadToUnregisteredPeer ==
    [][ServerSendRuns =>
        LET data == DataOf(Appended(host_out, host_out'))
            live == Resolving
        IN  /\ IsPrefix(host_out, host_out')
            /\ data = [i \in 1..Len(live) |->
                         <<ServerSendChannel(live[i][2]), add_marker(live[i][3]),
                           connections[live[i][1]]>>]
            /\ \A k \in 1..Len(data) : data[k][3] \in DOMAIN client_entities
            /\ server_sent' = <<>>
      ]_vars

\* The host is about to drain a payload queued for a peer that has left the
\* registry since, followed by one for a peer that is registered.
C28_Witness ==
    /\ h_pc = "send_packets" /\ host_exists
    /\ server_sent = <<<<1, 0, NetPayload>>, <<2, 0, NetPayload>>>>
    /\ 1 \notin DOMAIN connections
    /\ DOMAIN client_entities = {"p2"}
    /\ connections = [e \in {2} |-> "p2"]

\* ----------------------------------------------------------------- C29
\* A run of the client's update_peers in which try_update_peers fails.
ClientFatalRuns ==
    /\ c_pc = "update_peers" /\ c_pc' = ClientNextPc(c_pc)
    /\ client_exists /\ client_socket = "closed"

\* C29: the run of update_peers in which the peer enumeration fails removes
\* the client resource, whatever the client state; the run of
\* set_disconnected that sees a removal sets the state Disconnected, and so
\* no tick ends with the resource gone and the state other than Disconnected.
C29_ClientFatalFailure ==
    [][/\ ClientFatalRuns => (~client_exists' /\ client_removed')
       /\ (c_pc = "set_disconnected" /\ c_pc' = ClientNextPc(c_pc) /\ client_removed)
           => client_state' = "Disconnected"
       /\ (ClientTickEnds /\ ~client_exists') => client_state' = "Disconnected"
       /\ (client_removed /\ c_pc' # "send_packets") => client_removed'
      ]_vars

\* The socket of a connected client has failed and update_peers is about to
\* run.
C29_Witness ==
    /\ c_pc = "update_peers" /\ client_exists /\ client_socket = "closed"
    /\ client_state = "Connected" /\ host_peer_id = HostPeer
    /\ ~should_disconnect

\* The same for a client that is still connecting.
C29_FailsWhileConnecting ==
    /\ c_pc = "update_peers" /\ client_exists /\ client_socket = "closed"
    /\ client_state = "Connecting" /\ host_peer_id = NoPeer

\* ----------------------------------------------------------------- C30
\* The registry the peer reports waiting in the socket lead to.
RegistryAfterReports ==
    PresenceLoop([ce |-> client_entities, spawn |-> Empty, despawn |-> {},
                  next |-> next_entity, out |-> host_out], host_peer_updates).ce

\* The datagrams waiting on client->host channel j whose sender is in the
\* registry the waiting peer reports lead to.
FromReportedPeers(j) ==
    LET Known(d) == d[1] \in DOMAIN RegistryAfterReports
    IN  SelectSeq(host_in[ClientSendChannel(server_channels, j)], Known)

\* C30: in a host tick the peer reports are read before the control channel
\* is drained and before the data channels are read: when either drain runs
\* on a working socket no peer report is left unread, and the data datagrams
\* delivered are those of the peers the tick's reports leave registered.
C30_PeerStateUpdateFirst ==
    [][/\ (ServerSystemRuns \/ (ServerReceiveRuns /\ host_socket = "open"))
           => host_peer_updates = <<>>
       /\ (ServerReceiveRuns /\ host_socket = "open")
           => \A j \in 0..(client_channels - 1) :
                 LET OnJ(r) == r[2] = j
                 IN  Len(SelectSeq(Appended(server_received, server_received'), OnJ))
                        = Len(FromReportedPeers(j))
      ]_vars

\* ----------------------------------------------------------------- C31
\* C31: in a client tick the peer reports are read before the control
\* channel is drained, and the control channel is drained before the data
\* channels are read: when the control drain runs on a working socket no peer
\* report is left unread, and when the data channels are read neither a peer
\* report nor a control datagram is left unread.
C31_ClientPeerListFirst ==
    [][/\ ClientSystemRuns => client_peer_updates = <<>>
       /\ ClientReceiveRuns
           => /\ client_peer_updates = <<>>
              /\ client_in[SYSTEM_CHANNEL_ID] = <<>>
      ]_vars

\* ----------------------------------------------------------------- C32
\* The datagrams of a log that are addressed to `peer`, in their order.
SentTo(peer, out) ==
    LET IsTo(d) == d[3] = peer
    IN  SelectSeq(out, IsTo)

\* C32: in everything the host has sent, the first datagram addressed to a
\* peer is a ConnectedToHost on the control channel; no data payload, and no
\* other control message, is sent to a peer before it.
C32_GreetingBeforeData ==
    \A p \in Peers :
       SentTo(p, host_out) # <<>>
          => Head(SentTo(p, host_out))
                = <<SYSTEM_CHANNEL_ID, to_packet("ConnectedToHost"), p>>

\* The host has greeted a peer and then sent it a payload.
C32_Witness ==
    /\ Len(SentTo("p1", host_out)) = 2
    /\ SentTo("p1", host_out)[2] = <<ServerSendChannel(1), add_marker(<<>>), "p1">>

\* ----------------------------------------------------------------- C33
\* C33: in everything the host has sent to a peer, a HostRequestsDisconnect
\* is followed, if by anything, by a ConnectedToHost: no data payload and no
\* second HostRequestsDisconnect is sent to the peer until it is registered
\* again.  A run of update_client_presence that reads a Connected report of
\* a peer that is not registered gives it a handle that no peer had before
\* and sends it ConnectedToHost.
C33_NothingAfterRequestUntilReconnect ==
    [][/\ \A p \in Peers :
             LET sent == SentTo(p, host_out')
             IN  \A k \in 1..(Len(sent) - 1) :
                    sent[k][2] = to_packet("HostRequestsDisconnect")
                          /\ sent[k][1] = SYSTEM_CHANNEL_ID
                       => sent[k + 1] =
                             <<SYSTEM_CHANNEL_ID, to_packet("ConnectedToHost"), p>>
       /\ PresenceRuns
           => \A p \in Peers \ DOMAIN client_entities :
                 LastReport(p, host_peer_updates) = "Connected"
                    => /\ p \in DOMAIN client_entities'
                       /\ client_entities'[p] >= next_entity
                       /\ client_entities'[p] \notin DOMAIN connections
                       /\ connections'[client_entities'[p]] = p
                       /\ SendsTo(Appended(host_out, host_out'),
                                  to_packet("ConnectedToHost"), p) >= 1
      ]_vars

\* The host greeted a peer, requested its disconnection, and registered it
\* again under a new handle when the socket reported it Connected again.
C33_Witness ==
    /\ SentTo("p1", host_out) =
          <<<<SYSTEM_CHANNEL_ID, to_packet("ConnectedToHost"), "p1">>,
            <<SYSTEM_CHANNEL_ID, to_packet("HostRequestsDisconnect"), "p1">>,
            <<SYSTEM_CHANNEL_ID, to_packet("ConnectedToHost"), "p1">>>>
    /\ "p1" \in DOMAIN client_entities
    /\ client_entities["p1"] = 2
    /\ connections = [e \in {2} |-> "p1"]

\* ----------------------------------------------------------------- C34
\* C34: every datagram a step of the client sends is addressed to the host
\* peer id recorded when the step is taken, and there is one recorded.  What
\* send_packets sends, the payloads, goes out on a client->host index, from
\* 1+S to S+C, never on the control channel or a host->client index; the
\* control channel carries nothing but the ClientDisconnects of disconnect().
C34_PayloadsOnlyToHostOnClientChannels ==
    [][LET sent == Appended(client_out, client_out')
       IN  \A k \in 1..Len(sent) :
              /\ host_peer_id # NoPeer
              /\ sent[k][3] = host_peer_id
              /\ IF c_pc = "send_packets" /\ c_pc' = ClientNextPc(c_pc)
                 THEN /\ sent[k][1] \in (1 + server_channels)
                                           ..(server_channels + client_channels)
                      /\ sent[k][1] \notin HostToClientIndices \cup {SYSTEM_CHANNEL_ID}
                      /\ \E i \in 1..Len(client_sent) :
                            sent[k][2] = add_marker(client_sent[i][2])
                 ELSE sent[k] = Goodbye
      ]_vars

\* A client that recorded the peer "x" as its host has sent it a payload on
\* the first client->host index.
C34_Witness ==
    /\ c_pc = ClientTickStart
    /\ host_peer_id = OtherPeer
    /\ client_out = <<<<1 + server_channels, add_marker(<<65, 66>>), OtherPeer>>>>

\* ----------------------------------------------------------------- C35
\* The data datagrams of `peer` waiting in an inbox of the host.
WaitingFrom(peer, inbox) ==
    {<<j, i>> \in (0..(client_channels - 1)) \X (1..MaxHostEvents + 1) :
        /\ i <= Len(inbox[ClientSendChannel(server_channels, j)])
        /\ inbox[ClientSendChannel(server_channels, j)][i][1] = peer}

\* C35: the host drains the control channel before it reads the data
\* channels.  The run of receive_system_channel_packets that drains a
\* ClientDisconnects of a registered peer leaves the peer out of the
\* registry with its data datagrams still waiting, and the run of
\* receive_packets that follows, with no control datagram left unread, adds
\* to the inbound queue no entry for a peer that is not in the registry: none
\* under the handle the peer had.
C35_NoDataAfterGoodbyeInTick ==
    [][/\ ServerSystemRuns
           => /\ h_pc' = "receive_packets"
              /\ \A p \in DOMAIN client_entities :
                    SaysGoodbye(p)
                       => /\ p \notin DOMAIN client_entities'
                          /\ WaitingFrom(p, host_in') = WaitingFrom(p, host_in)
                          /\ \A r \in 1..Len(
                                ServerReceiveLoop(<<>>, client_entities',
                                   server_channels, client_channels, host_in', 0)) :
                                ServerReceiveLoop(<<>>, client_entities',
                                   server_channels, client_channels, host_in', 0)[r][1]
                                   # client_entities[p]
       /\ (ServerReceiveRuns /\ host_socket = "open")
           => /\ host_in[SYSTEM_CHANNEL_ID] = <<>>
              /\ \A k \in 1..Len(Appended(server_received, server_received')) :
                    \E p \in DOMAIN client_entities :
                       Appended(server_received, server_received')[k][1]
                          = client_entities[p]
      ]_vars

\* The host is about to drain the ClientDisconnects of a registered peer
\* whose data datagram waits on a client channel.
C35_Witness ==
    /\ h_pc = "receive_system" /\ host_exists /\ host_socket = "open"
    /\ "p1" \in DOMAIN client_entities
    /\ SaysGoodbye("p1")
    /\ WaitingFrom("p1", host_in) # {}

\* ----------------------------------------------------------------- C36
\* A step of the application that adds to the pending disconnections:
\* MatchboxHost::disconnect_all, server.rs:239-242.
DisconnectAllRuns ==
    /\ h_pc' = h_pc
    /\ host_exists /\ host_exists'
    /\ IsPrefix(clients_to_disconnect, clients_to_disconnect')
    /\ Len(clients_to_disconnect') > Len(clients_to_disconnect)

\* C36: disconnect_all makes every registered peer pending and neither
\* changes the registry nor the state of the host.  A run of the host's
\* send_packets leaves the list of pending disconnections empty, sends each
\* peer at most one HostRequestsDisconnect however many times the peer is in
\* the list, leaves every peer that was pending out of the registry, and
\* leaves the state of the host as it was.
C36_PendingServedOnce ==
    [][/\ DisconnectAllRuns
           => /\ \A p \in DOMAIN client_entities : Pending(p)'
              /\ client_entities' = client_entities
              /\ server_state' = server_state
       /\ ServerSendRuns
           => /\ clients_to_disconnect' = <<>>
              /\ server_state' = server_state
              /\ \A p \in Peers :
                    /\ Len(RequestsTo(p, Appended(host_out, host_out'))) <= 1
                    /\ Pending(p) => p \notin DOMAIN client_entities'
                    /\ (Pending(p) /\ p \in DOMAIN client_entities)
                          => Len(RequestsTo(p, Appended(host_out, host_out'))) = 1
      ]_vars

\* The running host is about to send with a registered peer twice in the
\* list of pending disconnections.
C36_Witness ==
    /\ h_pc = "send_packets" /\ host_exists
    /\ server_state = "Running"
    /\ "p1" \in DOMAIN client_entities
    /\ clients_to_disconnect = <<"p1", "p1">>

\* ----------------------------------------------------------------- C37
\* A call of the application or an arrival at the client's socket: a step
\* between two systems of the client that is counted against the client.
ClientCallRuns ==
    /\ c_pc' = c_pc
    /\ client_exists
    /\ budget'.client = budget.client + 1

\* C37: while the client has no host peer id recorded, no call of the
\* application, disconnect() included, sends a datagram, sets the disconnect
\* flag, changes the state of the client or records a host.
C37_DisconnectWithoutHostIsNoOp ==
    [][(ClientCallRuns /\ host_peer_id = NoPeer)
          => /\ client_out' = client_out
             /\ should_disconnect' = should_disconnect
             /\ client_state' = client_state
             /\ host_peer_id' = NoPeer
      ]_vars

\* A client with an open socket and no host recorded has spent all its calls
\* and has neither sent a datagram nor set the flag.
C37_Witness ==
    /\ client_exists /\ client_socket = "open"
    /\ host_peer_id = NoPeer
    /\ budget.client = MaxClientEvents
    /\ c_pc = "update"
    /\ client_sent = <<>>
    /\ client_out = <<>>
    /\ ~should_disconnect

\* ----------------------------------------------------------------- C38
\* The step of the client's send_packets on a socket that reports a closed
\* channel: client.rs:141-144.
ClientSendOnClosed ==
    /\ c_pc = "send_packets" /\ c_pc' = ClientNextPc(c_pc)
    /\ client_exists
    /\ any_channel_closed(client_socket)

\* C38: the step of the client's send_packets on a socket that reports a
\* closed channel drains no queued payload, sends no datagram, and leaves the
\* disconnect flag, the host peer id, the state of the client and the socket
\* as they were.
C38_ClosedChannelSendIsNoOp ==
    [][ClientSendOnClosed
          => /\ client_sent' = client_sent
             /\ client_out' = client_out
             /\ should_disconnect' = should_disconnect
             /\ host_peer_id' = host_peer_id
             /\ client_state' = client_state
             /\ client_socket' = client_socket
      ]_vars

\* A tick has ended whose send_packets found a channel closed: the payload is
\* still queued, the flag is still set and the host is still recorded.
C38_Witness ==
    /\ c_pc = ClientTickStart
    /\ client_exists
    /\ client_socket = "partial"
    /\ host_peer_id # NoPeer
    /\ should_disconnect
    /\ client_sent # <<>>

====
